---- MODULE Spec2Model ----
(***************************************************************************)
(* A model of lsst/alert_packet: the schema resolver                       *)
(* (schema.py, resolve_schema_definition), the schema registry             *)
(* (schemaRegistry.py, SchemaRegistry), the alert simulator                *)
(* (simulate.py, simulate_alert) and the Avro facade of Schema             *)
(* (schema.py, serialize / deserialize / validate / store_alerts, and      *)
(* io.py, retrieve_alerts).                                                *)
(*                                                                         *)
(* Python values (schema definitions and alert records alike) are JSON     *)
(* trees.  A tree node is a record [k, s, n, items]:                       *)
(*   k = "str"   a string, in s                                            *)
(*   k = "num"   an integer, in n                                          *)
(*   k = "null"  None                                                      *)
(*   k = "bool"  True (n = 1) or False (n = 0)                             *)
(*   k = "list"  a list, its elements in items                             *)
(*   k = "dict"  a dict, items is the sequence of its [key, val] entries   *)
(*               in insertion order (Python dicts iterate in that order);  *)
(*               a key is a tree that is no list and no dict               *)
(*   k = "float" a float, n counting units of 2^-30                        *)
(*   k = "bytes" a bytes object, its bytes in items                        *)
(***************************************************************************)
EXTENDS Integers, Sequences, FiniteSets, TLC

----------------------------------------------------------------------------
(* JSON trees *)

Str(s) == [k |-> "str", s |-> s, n |-> 0, items |-> <<>>]

Num(n) == [k |-> "num", s |-> "", n |-> n, items |-> <<>>]

JNull == [k |-> "null", s |-> "", n |-> 0, items |-> <<>>]

JBool(b) == [k |-> "bool", s |-> "", n |-> IF b THEN 1 ELSE 0, items |-> <<>>]

\* The binary places of the floats of the model: Float(n) is n * 2^-30
FloatPlaces == 30

\* A Python float of value n * 2^-FloatPlaces
Float(n) == [k |-> "float", s |-> "", n |-> n, items |-> <<>>]

List(xs) == [k |-> "list", s |-> "", n |-> 0, items |-> xs]

Dict(kvs) == [k |-> "dict", s |-> "", n |-> 0, items |-> kvs]

IsStr(x) == x.k = "str"

IsList(x) == x.k = "list"

IsDict(x) == x.k = "dict"

Range(f) == {f[i] : i \in DOMAIN f}

\* a bool or a float as the number Python's == takes it for: False == 0,
\* True == 1, and a float without a fraction equals the int of its value
Numeric(x) ==
  CASE x.k = "bool" -> Num(x.n)
    [] x.k = "float" /\ x.n % (2 ^ FloatPlaces) = 0 -> Num(x.n \div (2 ^ FloatPlaces))
    [] OTHER -> x

\* hash(x): a list and a dict have none (TypeError)
IsHashable(x) == ~IsList(x) /\ ~IsDict(x)

\* an entry of a dict: the key is any value that has a hash
Item(key, val) == [key |-> key, val |-> val]

\* an entry of a dict whose key is the str key
KV(key, val) == Item(Str(key), val)

\* The keys of a dict, as == takes them: 1, 1.0 and True are one key
Keys(d) == {Numeric(d.items[i].key) : i \in DOMAIN d.items}

\* key in d
HasItem(d, key) == Numeric(key) \in Keys(d)

\* d[key] of a dict that has the key
GetItem(d, key) ==
  d.items[CHOOSE i \in DOMAIN d.items :
            Numeric(d.items[i].key) = Numeric(key)].val

\* d[key] = val: an existing entry keeps its place and its key, a new key
\* is appended
PutItem(d, key, val) ==
  IF HasItem(d, key)
    THEN Dict([i \in DOMAIN d.items |->
                 IF Numeric(d.items[i].key) = Numeric(key)
                   THEN Item(d.items[i].key, val) ELSE d.items[i]])
    ELSE Dict(Append(d.items, Item(key, val)))

\* the same for a key that is the str key
HasKey(d, key) == HasItem(d, Str(key))

Get(d, key) == GetItem(d, Str(key))

SetItem(d, key, val) == PutItem(d, Str(key), val)

----------------------------------------------------------------------------
(* The characters of the strings the model uses, as code points: what      *)
(* str.encode('utf-8') gives for them.                                     *)

StrCodes(s) ==
  CASE s = ""         -> <<>>
    [] s = "type"     -> <<116, 121, 112, 101>>
    [] s = "record"   -> <<114, 101, 99, 111, 114, 100>>
    [] s = "name"     -> <<110, 97, 109, 101>>
    [] s = "fields"   -> <<102, 105, 101, 108, 100, 115>>
    [] s = "int"      -> <<105, 110, 116>>
    [] s = "string"   -> <<115, 116, 114, 105, 110, 103>>
    [] s = "example"  -> <<101, 120, 97, 109, 112, 108, 101>>
    [] s = "field10"  -> <<102, 105, 101, 108, 100, 49, 48>>
    [] s = "field20"  -> <<102, 105, 101, 108, 100, 50, 48>>
    [] s = "field21"  -> <<102, 105, 101, 108, 100, 50, 49>>
    [] s = "namespace"-> <<110, 97, 109, 101, 115, 112, 97, 99, 101>>
    [] s = "lsst"     -> <<108, 115, 115, 116>>
    [] s = "ecylwtxz" -> <<101, 99, 121, 108, 119, 116, 120, 122>>
    [] s = "epdnndzu" -> <<101, 112, 100, 110, 110, 100, 122, 117>>
    [] s = "lsst.top"         -> <<108, 115, 115, 116, 46, 116, 111, 112>>
    [] s = "lsst.sub"         -> <<108, 115, 115, 116, 46, 115, 117, 98>>
    [] s = "lsst.subsub"      -> <<108, 115, 115, 116, 46, 115, 117, 98, 115, 117, 98>>
    [] s = "lsst.kind"        -> <<108, 115, 115, 116, 46, 107, 105, 110, 100>>
    [] s = "lsst.md5"         -> <<108, 115, 115, 116, 46, 109, 100, 53>>
    [] s = "top_field"        -> <<116, 111, 112, 95, 102, 105, 101, 108, 100>>
    [] s = "boring_field"     -> <<98, 111, 114, 105, 110, 103, 95, 102, 105, 101, 108, 100>>
    [] s = "sub_field"        -> <<115, 117, 98, 95, 102, 105, 101, 108, 100>>
    [] s = "second_sub_field" -> <<115, 101, 99, 111, 110, 100, 95, 115, 117, 98, 95, 102, 105, 101, 108, 100>>
    [] s = "sub_sub_field"    -> <<115, 117, 98, 95, 115, 117, 98, 95, 102, 105, 101, 108, 100>>
    [] s = "array"            -> <<97, 114, 114, 97, 121>>
    [] s = "items"            -> <<105, 116, 101, 109, 115>>
    [] s = "null"             -> <<110, 117, 108, 108>>
    [] s = "enum"             -> <<101, 110, 117, 109>>
    [] s = "fixed"            -> <<102, 105, 120, 101, 100>>
    [] s = "symbols"          -> <<115, 121, 109, 98, 111, 108, 115>>
    [] s = "size"             -> <<115, 105, 122, 101>>
    [] s = "NEW"              -> <<78, 69, 87>>
    [] s = "OLD"              -> <<79, 76, 68>>
    [] s = "__"       -> <<95, 95>>
    [] s = "__len__"  -> <<95, 95, 108, 101, 110, 95, 95>>
    [] s = "__fastavro_parsed"-> <<95, 95, 102, 97, 115, 116, 97, 118, 114, 111, 95, 112, 97, 114, 115, 101, 100>>
    [] s = "alertId"      -> <<97, 108, 101, 114, 116, 73, 100>>
    [] s = "nobs"         -> <<110, 111, 98, 115>>
    [] s = "snr"          -> <<115, 110, 114>>
    [] s = "ra"           -> <<114, 97>>
    [] s = "band"         -> <<98, 97, 110, 100>>
    [] s = "flag"         -> <<102, 108, 97, 103>>
    [] s = "stamp"        -> <<115, 116, 97, 109, 112>>
    [] s = "nothing"      -> <<110, 111, 116, 104, 105, 110, 103>>
    [] s = "kind"         -> <<107, 105, 110, 100>>
    [] s = "md5"          -> <<109, 100, 53>>
    [] s = "ssObject"     -> <<115, 115, 79, 98, 106, 101, 99, 116>>
    [] s = "psFlux"       -> <<112, 115, 70, 108, 117, 120>>
    [] s = "prvDiaSources" -> <<112, 114, 118, 68, 105, 97, 83, 111, 117, 114, 99, 101, 115>>
    [] s = "flags"        -> <<102, 108, 97, 103, 115>>
    [] s = "diaSource"    -> <<100, 105, 97, 83, 111, 117, 114, 99, 101>>
    [] s = "diaSourceId"  -> <<100, 105, 97, 83, 111, 117, 114, 99, 101, 73, 100>>
    [] s = "ssObjectId"   -> <<115, 115, 79, 98, 106, 101, 99, 116, 73, 100>>
    [] s = "note"         -> <<110, 111, 116, 101>>
    [] s = "extra"        -> <<101, 120, 116, 114, 97>>
    [] s = "default"      -> <<100, 101, 102, 97, 117, 108, 116>>
    [] s = "lsst.alert"   -> <<108, 115, 115, 116, 46, 97, 108, 101, 114, 116>>
    [] s = "lsst.diaSource" -> <<108, 115, 115, 116, 46, 100, 105, 97, 83, 111, 117, 114, 99, 101>>
    [] s = "lsst.ssObject" -> <<108, 115, 115, 116, 46, 115, 115, 79, 98, 106, 101, 99, 116>>
    [] s = "long"         -> <<108, 111, 110, 103>>
    [] s = "float"        -> <<102, 108, 111, 97, 116>>
    [] s = "double"       -> <<100, 111, 117, 98, 108, 101>>
    [] s = "boolean"      -> <<98, 111, 111, 108, 101, 97, 110>>
    [] s = "bytes"        -> <<98, 121, 116, 101, 115>>

RECURSIVE SeqLess(_, _)
\* lexicographic order of code point sequences: Python's str <
SeqLess(a, b) ==
  IF b = <<>> THEN FALSE
  ELSE IF a = <<>> THEN TRUE
  ELSE IF a[1] # b[1] THEN a[1] < b[1]
  ELSE SeqLess(Tail(a), Tail(b))

StrLess(a, b) == SeqLess(StrCodes(a), StrCodes(b))

\* The keys Python's < can compare with one another: strs, numbers (int,
\* float and bool), None (with nothing, itself included), bytes
KeyGroup(key) ==
  CASE key.k = "str" -> 1
    [] key.k \in {"num", "bool", "float"} -> 2
    [] key.k = "null" -> 3
    [] key.k = "bytes" -> 4

\* a < b for two numbers: an int is n, a float n * 2^-FloatPlaces
NumLess(a, b) ==
  LET whole(x) == IF x.k = "float" THEN x.n \div (2 ^ FloatPlaces) ELSE x.n
      part(x) == IF x.k = "float" THEN x.n % (2 ^ FloatPlaces) ELSE 0
  IN \/ whole(a) < whole(b)
     \/ whole(a) = whole(b) /\ part(a) < part(b)

\* a < b for two keys of one group, and the groups one after the other
KeyLess(a, b) ==
  IF KeyGroup(a) # KeyGroup(b) THEN KeyGroup(a) < KeyGroup(b)
  ELSE CASE KeyGroup(a) = 1 -> StrLess(a.s, b.s)
         [] KeyGroup(a) = 2 -> NumLess(a, b)
         [] KeyGroup(a) = 3 -> FALSE
         [] KeyGroup(a) = 4 -> SeqLess(a.items, b.items)

RECURSIVE InsertKV(_, _)
InsertKV(sorted, kv) ==
  IF sorted = <<>> THEN <<kv>>
  ELSE IF KeyLess(kv.key, sorted[1].key) THEN <<kv>> \o sorted
  ELSE <<sorted[1]>> \o InsertKV(Tail(sorted), kv)

RECURSIVE SortKeys(_)
\* the entries of a dict in the order json.dumps(sort_keys=True) writes them
SortKeys(kvs) ==
  IF kvs = <<>> THEN <<>>
  ELSE InsertKV(SortKeys(SubSeq(kvs, 1, Len(kvs) - 1)), kvs[Len(kvs)])

RECURSIVE Digits(_)
Digits(n) == IF n < 10 THEN <<48 + n>> ELSE Digits(n \div 10) \o <<48 + (n % 10)>>

RECURSIVE DumpsRaises(_, _)
\* whether json.dumps(x, sort_keys=sort_keys) raises TypeError: a bytes
\* object is not serializable, as a value or as a key, and sorted() cannot
\* order the keys of a dict that are not of one group
DumpsRaises(x, sort_keys) ==
  CASE x.k = "bytes" -> TRUE
    [] x.k = "list"  -> \E i \in DOMAIN x.items : DumpsRaises(x.items[i], sort_keys)
    [] x.k = "dict"  ->
         \/ \E i \in DOMAIN x.items :
              \/ x.items[i].key.k = "bytes"
              \/ DumpsRaises(x.items[i].val, sort_keys)
         \/ /\ sort_keys
            /\ \E i, j \in DOMAIN x.items :
                 /\ i # j
                 /\ \/ KeyGroup(x.items[i].key) # KeyGroup(x.items[j].key)
                    \/ KeyGroup(x.items[i].key) = 3
    [] OTHER -> FALSE

\* a key as json.dumps writes it: a str as it is, an int in digits, True,
\* False and None as true, false and null
DumpsKey(key) ==
  CASE key.k = "str"  -> StrCodes(key.s)
    [] key.k = "num"  -> IF key.n < 0 THEN <<45>> \o Digits(-key.n) ELSE Digits(key.n)
    [] key.k = "null" -> <<110, 117, 108, 108>>
    [] key.k = "bool" -> IF key.n = 1 THEN <<116, 114, 117, 101>>
                                      ELSE <<102, 97, 108, 115, 101>>

RECURSIVE Dumps(_, _)
RECURSIVE DumpsList(_, _)
RECURSIVE DumpsDict(_, _)
\* json.dumps(x, sort_keys=sort_keys).encode('utf-8'), as a sequence of bytes
Dumps(x, sort_keys) ==
  CASE x.k = "str"  -> <<34>> \o StrCodes(x.s) \o <<34>>
    [] x.k = "num"  -> IF x.n < 0 THEN <<45>> \o Digits(-x.n) ELSE Digits(x.n)
    [] x.k = "null" -> <<110, 117, 108, 108>>
    [] x.k = "bool" -> IF x.n = 1 THEN <<116, 114, 117, 101>>
                                  ELSE <<102, 97, 108, 115, 101>>
    [] x.k = "list" -> <<91>> \o DumpsList(x.items, sort_keys) \o <<93>>
    [] x.k = "dict" ->
         <<123>>
         \o DumpsDict(IF sort_keys THEN SortKeys(x.items) ELSE x.items, sort_keys)
         \o <<125>>

DumpsList(xs, sort_keys) ==
  IF xs = <<>> THEN <<>>
  ELSE IF Len(xs) = 1 THEN Dumps(xs[1], sort_keys)
  ELSE Dumps(xs[1], sort_keys) \o <<44, 32>> \o DumpsList(Tail(xs), sort_keys)

DumpsDict(kvs, sort_keys) ==
  IF kvs = <<>> THEN <<>>
  ELSE LET one == <<34>> \o DumpsKey(kvs[1].key) \o <<34, 58, 32>>
                  \o Dumps(kvs[1].val, sort_keys)
       IN IF Len(kvs) = 1 THEN one
          ELSE one \o <<44, 32>> \o DumpsDict(Tail(kvs), sort_keys)

RECURSIVE Canon(_)
\* a tree with the entries of every dict in key order and every number in
\* one form: two values are equal for Python's == (Schema.__eq__ compares
\* the definitions so) iff their Canon forms are equal
Canon(x) ==
  CASE x.k = "list" -> List([i \in DOMAIN x.items |-> Canon(x.items[i])])
    [] x.k = "dict" ->
         LET srt == SortKeys(x.items)
         IN Dict([i \in DOMAIN srt |->
                    Item(Numeric(srt[i].key), Canon(srt[i].val))])
    [] OTHER -> Numeric(x)

PyEq(a, b) == Canon(a) = Canon(b)

----------------------------------------------------------------------------
(* zlib.crc32: the reflected CRC-32 of a byte sequence, computed a byte at *)
(* a time from a table as zlib does.  The 32-bit register is four bytes,   *)
(* least significant first; the table is built from the bitwise           *)
(* definition, on words of 32 bits, least significant bit first.           *)

Bits(n, w) == [i \in 1..w |-> (n \div (2 ^ (i - 1))) % 2]

XorBits(a, b) == [i \in DOMAIN a |-> (a[i] + b[i]) % 2]

RECURSIVE BitsValue(_)
BitsValue(bits) == IF bits = <<>> THEN 0 ELSE bits[1] + 2 * BitsValue(Tail(bits))

\* 0xEDB88320, the reversed CRC-32 polynomial
CrcPoly == Bits(33568, 16) \o Bits(60856, 16)

\* one bit through the shift register
CrcBit(crc) ==
  LET shifted == Tail(crc) \o <<0>>
  IN IF crc[1] = 1 THEN XorBits(shifted, CrcPoly) ELSE shifted

\* zlib's crc_table: entry b + 1 is the register after eight shifts of b
CrcTable256 ==
  [b \in 1..256 |->
     LET x0 == Bits(b - 1, 8) \o [i \in 1..24 |-> 0]
         x8 == CrcBit(CrcBit(CrcBit(CrcBit(CrcBit(CrcBit(CrcBit(CrcBit(x0))))))))
     IN <<BitsValue(SubSeq(x8, 1, 8)), BitsValue(SubSeq(x8, 9, 16)),
          BitsValue(SubSeq(x8, 17, 24)), BitsValue(SubSeq(x8, 25, 32))>>]
  \o <<>>

\* a ^ b for four-bit a and b, at [a + 1][b + 1]
XorTable16 ==
  [a \in 1..16 |->
     [b \in 1..16 |-> BitsValue(XorBits(Bits(a - 1, 4), Bits(b - 1, 4)))] \o <<>>]
  \o <<>>

\* a ^ b for bytes
XorByte(a, b) ==
  16 * XorTable16[(a \div 16) + 1][(b \div 16) + 1]
  + XorTable16[(a % 16) + 1][(b % 16) + 1]

\* crc = crc_table[(crc ^ byte) & 0xff] ^ (crc >> 8)
CrcByte(crc, byte) ==
  LET entry == CrcTable256[XorByte(crc[1], byte) + 1]
  IN <<XorByte(crc[2], entry[1]), XorByte(crc[3], entry[2]),
       XorByte(crc[4], entry[3]), entry[4]>>

RECURSIVE CrcUpdate(_, _, _, _)
\* the register crc after bytes[lo..hi] have gone through it, in order; the
\* range is halved so that the evaluation stays shallow
CrcUpdate(crc, bytes, lo, hi) ==
  IF lo > hi THEN crc
  ELSE IF lo = hi THEN CrcByte(crc, bytes[lo])
  ELSE LET mid == (lo + hi) \div 2
           left == CrcUpdate(crc, bytes, lo, mid)
       IN \* the guard has TLC compute left before the right half uses it
          CASE Len(left) = 4 -> CrcUpdate(left, bytes, mid + 1, hi)

\* The CRC as <<high 16 bits, low 16 bits>>: the Python int is
\* high * 65536 + low
crc32(bytes) ==
  LET crc == CrcUpdate(<<255, 255, 255, 255>>, bytes, 1, Len(bytes))
  IN <<(255 - crc[4]) * 256 + (255 - crc[3]),
       (255 - crc[2]) * 256 + (255 - crc[1])>>

----------------------------------------------------------------------------
(* SchemaRegistry (schemaRegistry.py).  A Schema object is its definition. *)

VARIABLES
  version_to_id,  \* SchemaRegistry._version_to_id
  id_to_schema,   \* SchemaRegistry._id_to_schema
  ret,            \* the last call: [op, arg, err, val]
  lastCall,       \* history: version -> the schema passed to, and the id
                  \* returned by, the most recent register_schema call for it
  threads,        \* the threads reading the registry: where each is in its
                  \* call, and what its last call returned
  remote,         \* loadRegistry.py: where main is, and the remote registry
  schema_defs,    \* fastavro.schema._schema.SCHEMA_DEFS: name -> definition
  to_resolve,     \* the definition Schema(...) is constructed from
  results,        \* what each resolve_schema_definition call so far returned
  seen_names,     \* the seen_names set of the last top-level call, as left
  definition,     \* Schema.definition, the dict simulate_alert is handed
  keepNull,       \* simulate_alert's keepNull
  arrayCount,     \* simulate_alert's arrayCount: field name -> count
  alerts,         \* the records simulated, or given, so far
  raised,         \* the exception simulate_alert raised, "" if none
  valid,          \* valid[i]: what validate(alerts[i]) did
  messages,       \* messages[i]: what serialize(alerts[i]) did
  decoded,        \* decoded[i]: what deserialize(messages[i]) did
  stored,         \* the stream store_alerts has written
  retrieved       \* what retrieve_alerts returned

regVars == <<version_to_id, id_to_schema, ret, lastCall, threads, remote>>

resVars == <<schema_defs, to_resolve, results, seen_names>>

simVars == <<definition, keepNull, arrayCount, alerts, raised, valid>>

codecVars == <<messages, decoded, stored, retrieved>>

vars == <<version_to_id, id_to_schema, ret, lastCall, threads, remote,
          schema_defs, to_resolve, results, seen_names,
          definition, keepNull, arrayCount, alerts, raised, valid,
          messages, decoded, stored, retrieved>>

NoVal == <<>>

Returned(val) == [err |-> "", val |-> val]

Raised(err) == [err |-> err, val |-> NoVal]

\* no thread reads a registry, and loadRegistry.py is not run
NoRuns ==
  /\ threads = <<>>
  /\ remote = NoVal

\* no registry has been constructed
NoRegistry ==
  /\ version_to_id = <<>>
  /\ id_to_schema = <<>>
  /\ ret = [op |-> "init", arg |-> NoVal, err |-> "", val |-> NoVal]
  /\ lastCall = <<>>
  /\ NoRuns

\* no Schema has been constructed from a type graph
NoResolve ==
  /\ schema_defs = <<>>
  /\ to_resolve = JNull
  /\ results = <<>>
  /\ seen_names = {}

\* no alert has been simulated, validated, written or read
NoAlerts ==
  /\ definition = JNull
  /\ keepNull = {}
  /\ arrayCount = <<>>
  /\ alerts = <<>>
  /\ raised = ""
  /\ valid = <<>>
  /\ messages = <<>>
  /\ decoded = <<>>
  /\ stored = NoVal
  /\ retrieved = NoVal

\* The schema test_schemaRegistry.py writes for a version, with one field
Example(field) ==
  Dict(<<KV("name", Str("example")),
         KV("namespace", Str("lsst")),
         KV("type", Str("record")),
         KV("fields", List(<<Dict(<<KV("name", Str(field)),
                                    KV("type", Str("int"))>>)>>))>>)

\* The same definition with its keys written in another order
ExampleReordered(field) ==
  Dict(<<KV("type", Str("record")),
         KV("fields", List(<<Dict(<<KV("type", Str("int")),
                                    KV("name", Str(field))>>)>>)),
         KV("namespace", Str("lsst")),
         KV("name", Str("example"))>>)

\* The definitions the registry is given: those of the test's versions 1.0
\* and 2.0, the first also with reordered keys, two definitions whose
\* serialisations have the same CRC-32 (4255847787), and two that Python's
\* == takes for equal (0 == False) and json.dumps writes differently
\* A definition whose one field has a default
WithDefault(default) ==
  Dict(<<KV("name", Str("example")),
         KV("type", Str("record")),
         KV("fields", List(<<Dict(<<KV("name", Str("flag")),
                                    KV("type", Str("int")),
                                    KV("default", default)>>)>>))>>)

RegistrySchemas ==
  {Example("field10"), Example("field20"), ExampleReordered("field10"),
   Example("ecylwtxz"), Example("epdnndzu"),
   WithDefault(Num(0)), WithDefault(JBool(FALSE))}

\* The versions the test registers, and the one it only looks up
Versions == {"1.0", "2.0", "2.1"}

LookupVersions == Versions \cup {"2.2"}

\* The identifiers of the definitions above, computed once
CrcTable == {<<s, crc32(Dumps(s, TRUE))>> : s \in RegistrySchemas}

\* The definitions above json.dumps cannot write, computed once
RaisesTable == {<<s, DumpsRaises(s, TRUE)>> : s \in RegistrySchemas}

\* whether calculate_id(schema) raises the TypeError of json.dumps
calculate_id_raises(schema) ==
  IF \E p \in RaisesTable : p[1] = schema
    THEN (CHOOSE p \in RaisesTable : p[1] = schema)[2]
    ELSE DumpsRaises(schema, TRUE)

\* a bug calculate_id could have: json.dumps without sort_keys=True
calculate_id_unsorted(schema) == crc32(Dumps(schema, FALSE))

\* zlib.crc32(json.dumps(schema.definition, sort_keys=True).encode('utf-8'))
calculate_id(schema) ==
  IF \E p \in CrcTable : p[1] = schema
    THEN (CHOOSE p \in CrcTable : p[1] = schema)[2]
    ELSE crc32(Dumps(schema, TRUE))

\* a bug register_schema could have: the version map is rebuilt, not updated
register_schema_forgets(reg, schema, version) ==
  LET schema_id == calculate_id(schema)
  IN [version_to_id |-> (version :> schema_id),
      id_to_schema  |-> (schema_id :> schema) @@ reg.id_to_schema,
      ret           |-> schema_id,
      err           |-> ""]

\* a bug register_schema could have: the schema is stored only for an
\* identifier that is new to the registry's version map
register_schema_keeps_first(reg, schema, version) ==
  LET schema_id == calculate_id(schema)
  IN [version_to_id |-> (version :> schema_id) @@ reg.version_to_id,
      id_to_schema  |-> IF version \in DOMAIN reg.version_to_id
                          THEN reg.id_to_schema
                          ELSE (schema_id :> schema) @@ reg.id_to_schema,
      ret           |-> schema_id,
      err           |-> ""]

\* register_schema, once calculate_id has returned schema_id: both dicts
\* are assigned to and the identifier is returned
StoreSchema(reg, schema, version, schema_id) ==
  [version_to_id |-> (version :> schema_id) @@ reg.version_to_id,
   id_to_schema  |-> (schema_id :> schema) @@ reg.id_to_schema,
   ret           |-> schema_id,
   err           |-> ""]

\* register_schema(schema, version): the registry as the call leaves it, the
\* identifier returned, and the exception if calculate_id raised one
\* (json.dumps, before anything is stored)
register_schema(reg, schema, version) ==
  IF calculate_id_raises(schema)
    THEN [version_to_id |-> reg.version_to_id,
          id_to_schema  |-> reg.id_to_schema,
          ret           |-> NoVal,
          err           |-> "TypeError"]
    ELSE StoreSchema(reg, schema, version, calculate_id(schema))

get_by_id(reg, schema_id) ==
  IF schema_id \in DOMAIN reg.id_to_schema
    THEN Returned(reg.id_to_schema[schema_id])
    ELSE Raised("KeyError")

\* a bug get_by_version could have: dict.get in place of indexing, so that
\* a miss returns None
get_by_version_or_none(reg, version) ==
  IF version \in DOMAIN reg.version_to_id
       /\ reg.version_to_id[version] \in DOMAIN reg.id_to_schema
    THEN Returned(reg.id_to_schema[reg.version_to_id[version]])
    ELSE Returned(JNull)

get_by_version(reg, version) ==
  IF version \in DOMAIN reg.version_to_id
    THEN get_by_id(reg, reg.version_to_id[version])
    ELSE Raised("KeyError")

known_versions(reg) == DOMAIN reg.version_to_id

Registry == [version_to_id |-> version_to_id, id_to_schema |-> id_to_schema]

KnownIds == {calculate_id(s) : s \in RegistrySchemas}

InitRegistry ==
  /\ version_to_id = <<>>
  /\ id_to_schema = <<>>
  /\ ret = [op |-> "init", arg |-> NoVal, err |-> "", val |-> NoVal]
  /\ lastCall = <<>>
  /\ NoRuns
  /\ NoResolve
  /\ NoAlerts

\* The registry and the record of the calls once register_schema has
\* come to after; a call that raised is not among the calls that returned
Registered(after, schema, version) ==
  /\ version_to_id' = after.version_to_id
  /\ id_to_schema' = after.id_to_schema
  /\ ret' = [op |-> "register_schema", arg |-> version,
             err |-> after.err, val |-> after.ret]
  /\ lastCall' = IF after.err # "" THEN lastCall
                 ELSE (version :> [schema |-> schema, id |-> after.ret])
                      @@ lastCall

RegisterSchema(schema, version) ==
  /\ Registered(register_schema(Registry, schema, version), schema, version)
  /\ UNCHANGED <<threads, remote, resVars, simVars, codecVars>>

GetById(schema_id) ==
  LET got == get_by_id(Registry, schema_id)
  IN /\ ret' = [op |-> "get_by_id", arg |-> schema_id,
                err |-> got.err, val |-> got.val]
     /\ UNCHANGED <<version_to_id, id_to_schema, lastCall, threads, remote,
                    resVars, simVars, codecVars>>

GetByVersion(version) ==
  LET got == get_by_version(Registry, version)
  IN /\ ret' = [op |-> "get_by_version", arg |-> version,
                err |-> got.err, val |-> got.val]
     /\ UNCHANGED <<version_to_id, id_to_schema, lastCall, threads, remote,
                    resVars, simVars, codecVars>>

KnownVersions ==
  /\ ret' = [op |-> "known_versions", arg |-> NoVal,
             err |-> "", val |-> known_versions(Registry)]
  /\ UNCHANGED <<version_to_id, id_to_schema, lastCall, threads, remote,
                    resVars, simVars, codecVars>>

NextRegistry ==
  \/ \E schema \in RegistrySchemas, version \in Versions :
       RegisterSchema(schema, version)
  \/ \E schema_id \in KnownIds : GetById(schema_id)
  \/ \E version \in LookupVersions : GetByVersion(version)
  \/ KnownVersions

SpecRegistry == InitRegistry /\ [][NextRegistry]_vars

(* Threads that read a registry once it is populated.  A get_by_id or a   *)
(* known_versions call is one look at a dict; get_by_version looks the    *)
(* version's identifier up first and the identifier's schema second, and  *)
(* other threads run between the two.                                     *)

\* The threads
NumThreads == 2

Threads == 1..NumThreads

\* SchemaRegistry(): no version, no schema
NewRegistry == [version_to_id |-> <<>>, id_to_schema |-> <<>>]

\* The registries population leaves, population being register_schema calls
\* on a new registry: none, two, and the three of test_schemaRegistry.py
PopulatedRegistries ==
  {NewRegistry}
  \cup {register_schema(register_schema(NewRegistry, s1, v1), s2, v2) :
          s1 \in {Example("field10"), Example("ecylwtxz")},
          s2 \in {Example("field20"), Example("epdnndzu")},
          v1 \in {"1.0", "2.0"}, v2 \in {"2.0", "2.1"}}
  \cup {register_schema(
          register_schema(register_schema(NewRegistry, Example("field10"), "1.0"),
                          Example("field20"), "2.0"),
          Example("field21"), "2.1")}

\* a bug a lookup could have: dict.pop in place of indexing
AfterLookupPopped(map, key) == [k \in DOMAIN map \ {key} |-> map[k]]

\* self._id_to_schema[schema_id], self._version_to_id[version]: indexing
\* leaves the dict as it is
AfterLookup(map, key) == map

Call(pc, op, arg, id, result) ==
  [pc |-> pc, op |-> op, arg |-> arg, id |-> id, result |-> result]

InitReaders ==
  /\ \E reg \in PopulatedRegistries :
       /\ version_to_id = reg.version_to_id
       /\ id_to_schema = reg.id_to_schema
  /\ ret = [op |-> "init", arg |-> NoVal, err |-> "", val |-> NoVal]
  /\ lastCall = <<>>
  /\ threads = [t \in Threads |-> Call("idle", "", NoVal, NoVal, NoVal)]
  /\ remote = NoVal
  /\ NoResolve
  /\ NoAlerts

\* thread t: registry.get_by_id(schema_id)
ThreadGetById(t, schema_id) ==
  /\ threads[t].pc # "second"
  /\ threads' = [threads EXCEPT ![t] =
                   Call("done", "get_by_id", schema_id, NoVal,
                        get_by_id(Registry, schema_id))]
  /\ id_to_schema' = AfterLookup(id_to_schema, schema_id)
  /\ UNCHANGED <<version_to_id, ret, lastCall, remote, resVars, simVars, codecVars>>

\* thread t: registry.known_versions
ThreadKnownVersions(t) ==
  /\ threads[t].pc # "second"
  /\ threads' = [threads EXCEPT ![t] =
                   Call("done", "known_versions", NoVal, NoVal,
                        Returned(known_versions(Registry)))]
  /\ UNCHANGED <<version_to_id, id_to_schema, ret, lastCall, remote,
                 resVars, simVars, codecVars>>

\* thread t: registry.get_by_version(version), self._version_to_id[version]
ThreadGetByVersion(t, version) ==
  /\ threads[t].pc # "second"
  /\ threads' = [threads EXCEPT ![t] =
                   IF version \in DOMAIN version_to_id
                     THEN Call("second", "get_by_version", version,
                               version_to_id[version], threads[t].result)
                     ELSE Call("done", "get_by_version", version, NoVal,
                               Raised("KeyError"))]
  /\ version_to_id' = AfterLookup(version_to_id, version)
  /\ UNCHANGED <<id_to_schema, ret, lastCall, remote, resVars, simVars, codecVars>>

\* thread t: registry.get_by_version(version), self._id_to_schema[...]
ThreadGetByVersionSecond(t) ==
  /\ threads[t].pc = "second"
  /\ threads' = [threads EXCEPT ![t] =
                   Call("done", "get_by_version", threads[t].arg, threads[t].id,
                        get_by_id(Registry, threads[t].id))]
  /\ id_to_schema' = AfterLookup(id_to_schema, threads[t].id)
  /\ UNCHANGED <<version_to_id, ret, lastCall, remote, resVars, simVars, codecVars>>

NextReaders ==
  \/ \E t \in Threads, schema_id \in KnownIds : ThreadGetById(t, schema_id)
  \/ \E t \in Threads : ThreadKnownVersions(t)
  \/ \E t \in Threads, version \in LookupVersions : ThreadGetByVersion(t, version)
  \/ \E t \in Threads : ThreadGetByVersionSecond(t)

SpecReaders == InitReaders /\ [][NextReaders]_vars

----------------------------------------------------------------------------
(* Claims about the registry, checked under SpecRegistry *)

\* C3, as claimed: after any sequence of register calls, for every version
\* registered at least once, by_version returns the schema of the most
\* recent register call for it, and by_id of the identifier that call
\* returned returns that same schema.
C3_LatestSchemaByVersionAndId ==
  \A v \in DOMAIN lastCall :
    LET by_v == get_by_version(Registry, v)
        by_i == get_by_id(Registry, lastCall[v].id)
    IN /\ by_v.err = "" /\ PyEq(by_v.val, lastCall[v].schema)
       /\ by_i.err = "" /\ PyEq(by_i.val, lastCall[v].schema)

\* C4, as claimed: once a schema is stored under an identifier, by_id of
\* that identifier returns that schema in every later state; no later
\* registration removes the identifier or stores another schema under it.
C4_IdentifierKeepsItsSchema ==
  [][\A i \in DOMAIN id_to_schema :
       /\ i \in DOMAIN id_to_schema'
       /\ PyEq(id_to_schema'[i], id_to_schema[i])]_vars

RECURSIVE KeysInOrder(_)
\* a tree with the entries of every dict in key order
KeysInOrder(x) ==
  CASE x.k = "list" -> List([i \in DOMAIN x.items |-> KeysInOrder(x.items[i])])
    [] x.k = "dict" ->
         LET srt == SortKeys(x.items)
         IN Dict([i \in DOMAIN srt |->
                    Item(srt[i].key, KeysInOrder(srt[i].val))])
    [] OTHER -> x

\* The same definition: the same JSON document, in whatever order the keys
\* of its objects are written
SameDefinition(a, b) == KeysInOrder(a) = KeysInOrder(b)

\* C5: the identifier register returns is calculate_id of the definition,
\* and two calls with the same definition (the same document, its keys in
\* any order) return the same identifier, whatever the version and the
\* registry state.
C5_IdentifierFromDefinitionAlone ==
  /\ \A v \in DOMAIN lastCall :
       lastCall[v].id = calculate_id(lastCall[v].schema)
  /\ \A v1, v2 \in DOMAIN lastCall :
       SameDefinition(lastCall[v1].schema, lastCall[v2].schema)
         => lastCall[v1].id = lastCall[v2].id
  /\ ret.op = "register_schema" => ret.val = lastCall[ret.arg].id

\* C5's case: one definition registered under two versions, once with its
\* keys in another order
C5_Witness ==
  \E v1, v2 \in DOMAIN lastCall :
    /\ v1 # v2
    /\ lastCall[v1].schema # lastCall[v2].schema
    /\ SameDefinition(lastCall[v1].schema, lastCall[v2].schema)
    /\ DOMAIN id_to_schema # {lastCall[v1].id}

\* C6: by_version of a version never registered fails with KeyError and
\* returns no schema, and leaves known_versions and the result of every
\* lookup as they were.
C6_MissRaisesAndChangesNothing ==
  [][(ret'.op = "get_by_version" /\ ret'.arg \notin DOMAIN lastCall)
       => /\ ret'.err = "KeyError"
          /\ ret'.val = NoVal
          /\ known_versions(Registry') = known_versions(Registry)
          /\ \A v \in LookupVersions :
               get_by_version(Registry', v) = get_by_version(Registry, v)
          /\ \A i \in KnownIds :
               get_by_id(Registry', i) = get_by_id(Registry, i)]_vars

\* C6's case: 1.0, 2.0 and 2.1 are registered and by_version("2.2") has failed
C6_Witness ==
  /\ DOMAIN lastCall = {"1.0", "2.0", "2.1"}
  /\ ret.op = "get_by_version"
  /\ ret.arg = "2.2"
  /\ ret.err = "KeyError"

\* C7: known_versions is exactly the set of versions passed to register so
\* far, in every reachable state and as the value the property returns.
C7_KnownVersionsAreTheRegistered ==
  /\ known_versions(Registry) = DOMAIN lastCall
  /\ ret.op = "known_versions" => ret.val = DOMAIN lastCall

\* C7's case: the three versions are registered, under two identifiers
\* only, and known_versions has been read
C7_Witness ==
  /\ DOMAIN lastCall = {"1.0", "2.0", "2.1"}
  /\ Cardinality(DOMAIN id_to_schema) = 2
  /\ ret.op = "known_versions"
  /\ ret.val = {"1.0", "2.0", "2.1"}

----------------------------------------------------------------------------
(* resolve_schema_definition (schema.py), as Schema.__init__ calls it with *)
(* a fastavro that keeps SCHEMA_DEFS.                                      *)

\* The times Schema(...) is constructed from the same definition
MaxResolves == 2

\* a bug the dict branch could have: only records are remembered
NamedKindsRecordOnly == {"record"}

\* The kinds whose names can be used only once in the expanded schema
NamedKinds == {"record", "enum", "fixed"}

ResolveOk(out, seen) == [out |-> out, seen |-> seen, err |-> ""]

ResolveErr(err) == [out |-> JNull, seen |-> {}, err |-> err]

\* a bug the set could have: each call works on a copy of its caller's set
SeenAfterCallCopied(passed, result) == passed

\* The caller's set after a nested call that was passed it.  The callee runs
\* seen_names = seen_names or set(): a non-empty set is the caller's own
\* object, and holds afterwards what the callee added; an empty one is
\* replaced by a new set, and the caller's stays empty.
SeenAfterCall(passed, result) == IF passed = {} THEN passed ELSE result.seen

\* to_resolve['type'] in ('record', 'enum', 'fixed')
IsNamedType(d) == IsStr(Get(d, "type")) /\ Get(d, "type").s \in NamedKinds

RECURSIVE resolve_schema_definition(_, _, _)
RECURSIVE ResolveDictItems(_, _, _, _)
RECURSIVE ResolveListItems(_, _, _, _)

\* resolve_schema_definition(to_resolve, seen_names), with SCHEMA_DEFS = defs
\* and seen_names holding passed (None and the empty set behave alike);
\* gives the output, the set the call worked on as it leaves it, and the
\* exception if one was raised
resolve_schema_definition(defs, x, passed) ==
  IF IsDict(x) THEN
    IF ~HasKey(x, "type") THEN ResolveErr("KeyError")
    ELSE IF ~IsNamedType(x) THEN ResolveDictItems(defs, x.items, passed, Dict(<<>>))
    ELSE IF ~HasKey(x, "name") THEN ResolveErr("KeyError")
    ELSE IF ~IsHashable(Get(x, "name")) THEN ResolveErr("TypeError")
    ELSE IF Numeric(Get(x, "name")) \in passed THEN ResolveOk(Get(x, "name"), passed)
    ELSE ResolveDictItems(defs, x.items, passed \cup {Numeric(Get(x, "name"))},
                          Dict(<<>>))
  ELSE IF IsList(x) THEN ResolveListItems(defs, x.items, passed, List(<<>>))
  ELSE ResolveErr("Exception")

\* for k, v in to_resolve.items(): ...
ResolveDictItems(defs, items, seen, output) ==
  IF items = <<>> THEN ResolveOk(output, seen)
  ELSE
    LET k == items[1].key
        v == items[1].val
    IN IF k = Str("__fastavro_parsed")
         THEN ResolveDictItems(defs, Tail(items), seen, output)
       ELSE IF IsList(v) \/ IsDict(v)
               \/ (IsStr(v) /\ v.s \in DOMAIN defs /\ k # Str("name"))
         THEN LET r == resolve_schema_definition(
                         defs, IF IsStr(v) THEN defs[v.s] ELSE v, seen)
              IN IF r.err # "" THEN r
                 ELSE ResolveDictItems(defs, Tail(items), SeenAfterCall(seen, r),
                                       PutItem(output, k, r.out))
       ELSE ResolveDictItems(defs, Tail(items), seen, PutItem(output, k, v))

\* a bug the list branch could have: a null branch is left out of the output
ResolveListItemsWithoutNull(defs, items, seen, output) ==
  IF items = <<>> THEN ResolveOk(output, seen)
  ELSE
    LET v == items[1]
    IN IF IsList(v) \/ IsDict(v) \/ (IsStr(v) /\ v.s \in DOMAIN defs)
         THEN LET r == resolve_schema_definition(
                         defs, IF IsStr(v) THEN defs[v.s] ELSE v, seen)
              IN IF r.err # "" THEN r
                 ELSE ResolveListItems(defs, Tail(items), SeenAfterCall(seen, r),
                                       List(Append(output.items, r.out)))
       ELSE IF v = Str("null") THEN ResolveListItems(defs, Tail(items), seen, output)
       ELSE ResolveListItems(defs, Tail(items), seen, List(Append(output.items, v)))

\* a bug the list branch could have: each element is put in front of the
\* output instead of behind it
ResolveListItemsPrepending(defs, items, seen, output) ==
  IF items = <<>> THEN ResolveOk(output, seen)
  ELSE
    LET v == items[1]
    IN IF IsList(v) \/ IsDict(v) \/ (IsStr(v) /\ v.s \in DOMAIN defs)
         THEN LET r == resolve_schema_definition(
                         defs, IF IsStr(v) THEN defs[v.s] ELSE v, seen)
              IN IF r.err # "" THEN r
                 ELSE ResolveListItems(defs, Tail(items), SeenAfterCall(seen, r),
                                       List(<<r.out>> \o output.items))
       ELSE ResolveListItems(defs, Tail(items), seen, List(<<v>> \o output.items))

\* for v in to_resolve: ...
ResolveListItems(defs, items, seen, output) ==
  IF items = <<>> THEN ResolveOk(output, seen)
  ELSE
    LET v == items[1]
    IN IF IsList(v) \/ IsDict(v) \/ (IsStr(v) /\ v.s \in DOMAIN defs)
         THEN LET r == resolve_schema_definition(
                         defs, IF IsStr(v) THEN defs[v.s] ELSE v, seen)
              IN IF r.err # "" THEN r
                 ELSE ResolveListItems(defs, Tail(items), SeenAfterCall(seen, r),
                                       List(Append(output.items, r.out)))
       ELSE ResolveListItems(defs, Tail(items), seen, List(Append(output.items, v)))

\* a bug the signature could have: the set survives from call to call
InitialSeenKept(left) == left

\* seen_names=None is the default, and Schema.__init__ passes none: every
\* top-level call starts from a new set, whatever an earlier call left
InitialSeen(left) == {}

\* fastavro.schema._schema of an old fastavro, which has SCHEMA_DEFS, and
\* of a new one, which has not
OldFastavro(defs) == [SCHEMA_DEFS |-> defs]

NewFastavro == <<>>

\* Schema.__init__: if fastavro has SCHEMA_DEFS the definition is
\* resolve_schema_definition(schema_definition); if not, it is
\* schema_definition itself
Schema_init(fastavro, schema_definition, left) ==
  IF "SCHEMA_DEFS" \in DOMAIN fastavro
    THEN resolve_schema_definition(fastavro.SCHEMA_DEFS, schema_definition,
                                   InitialSeen(left))
    ELSE ResolveOk(schema_definition, {})

(* Type graphs: what fastavro has parsed into SCHEMA_DEFS.  The records   *)
(* are those of test_schema.py (lsst.top, lsst.sub, lsst.subsub), with an *)
(* enum and a fixed type beside them; the type of each field is drawn     *)
(* from a set of references.                                              *)

Field(name, type) == Dict(<<KV("name", Str(name)), KV("type", type)>>)

Record(name, fields) ==
  Dict(<<KV("type", Str("record")), KV("name", Str(name)),
         KV("fields", List(fields)), KV("__fastavro_parsed", JBool(TRUE))>>)

Enum(name, symbols) ==
  Dict(<<KV("type", Str("enum")), KV("name", Str(name)),
         KV("symbols", List(symbols))>>)

Fixed(name, size) ==
  Dict(<<KV("type", Str("fixed")), KV("name", Str(name)), KV("size", Num(size))>>)

ArrayOf(items) == Dict(<<KV("type", Str("array")), KV("items", items)>>)

Nullable(type) == List(<<Str("null"), type>>)

TopFieldTypes ==
  {Str("lsst.sub"), ArrayOf(Str("lsst.sub")), Nullable(Str("lsst.sub")),
   Str("lsst.kind")}

BoringFieldTypes ==
  {Str("int"), Str("lsst.sub"), Str("lsst.top"), Str("lsst.kind"), Str("lsst.md5")}

SubFieldTypes ==
  {Str("lsst.subsub"), ArrayOf(Str("lsst.subsub")), Str("lsst.md5")}

SecondSubFieldTypes ==
  {Str("lsst.subsub"), Nullable(Str("lsst.subsub")), Str("lsst.sub"),
   Str("lsst.md5"), Str("string")}

SubSubFieldTypes ==
  {Str("string"), Str("lsst.top"), Str("lsst.subsub"), Str("lsst.kind")}

TypeGraph(t1, t2, t3, t4, t5) ==
  [name \in {"lsst.top", "lsst.sub", "lsst.subsub", "lsst.kind", "lsst.md5"} |->
     CASE name = "lsst.top" ->
            Record(name, <<Field("top_field", t1), Field("boring_field", t2)>>)
       [] name = "lsst.sub" ->
            Record(name, <<Field("sub_field", t3), Field("second_sub_field", t4)>>)
       [] name = "lsst.subsub" ->
            Record(name, <<Field("sub_sub_field", t5)>>)
       [] name = "lsst.kind" -> Enum(name, <<Str("NEW"), Str("OLD")>>)
       [] name = "lsst.md5" -> Fixed(name, 16)]

TypeGraphs ==
  {TypeGraph(t1, t2, t3, t4, t5) :
     t1 \in TopFieldTypes, t2 \in BoringFieldTypes, t3 \in SubFieldTypes,
     t4 \in SecondSubFieldTypes, t5 \in SubSubFieldTypes}

\* The graph of test_recursive_resolve
TestGraph ==
  TypeGraph(Str("lsst.sub"), Str("int"), Str("lsst.subsub"), Str("lsst.subsub"),
            Str("string"))

InitResolve ==
  /\ schema_defs \in TypeGraphs
  /\ to_resolve = schema_defs["lsst.top"]
  /\ results = <<>>
  /\ seen_names = {}
  /\ NoRegistry
  /\ NoAlerts

\* resolve_schema_definition(to_resolve)
Resolve ==
  /\ Len(results) < MaxResolves
  /\ LET r == resolve_schema_definition(schema_defs, to_resolve,
                                        InitialSeen(seen_names))
     IN /\ results' = Append(results, [out |-> r.out, err |-> r.err])
        /\ seen_names' = r.seen
  /\ UNCHANGED <<schema_defs, to_resolve, regVars, simVars, codecVars>>

NextResolve == Resolve

SpecResolve == InitResolve /\ [][NextResolve]_vars

(* The same type graph resolved again, as it is and as another load of it  *)
(* gives it: a dict has its keys in the order they were put in, and equals *)
(* the dict that has the same entries in another order.                    *)

RECURSIVE KeysReversed(_)
\* The value with the entries of every dict in the opposite order
KeysReversed(x) ==
  CASE x.k = "list" -> List([i \in DOMAIN x.items |-> KeysReversed(x.items[i])])
    [] x.k = "dict" ->
         Dict([i \in DOMAIN x.items |->
                 Item(x.items[Len(x.items) + 1 - i].key,
                      KeysReversed(x.items[Len(x.items) + 1 - i].val))])
    [] OTHER -> x

\* resolve_schema_definition(to_resolve), the definition and SCHEMA_DEFS
\* holding the same graph with the keys of its dicts the other way round
ResolveReordered ==
  /\ Len(results) < MaxResolves
  /\ LET r == resolve_schema_definition(
                [name \in DOMAIN schema_defs |-> KeysReversed(schema_defs[name])],
                KeysReversed(to_resolve), InitialSeen(seen_names))
     IN /\ results' = Append(results, [out |-> r.out, err |-> r.err])
        /\ seen_names' = r.seen
  /\ UNCHANGED <<schema_defs, to_resolve, regVars, simVars, codecVars>>

NextResolveTwice ==
  \/ Resolve
  \/ ResolveReordered

SpecResolveTwice == InitResolve /\ [][NextResolveTwice]_vars

(* Definitions given to Schema(...) and SCHEMA_DEFS as they are, without   *)
(* fastavro having checked them: the second field of lsst.top may name a   *)
(* type that is in no definition, or be a map.                             *)

MapOf(values) == Dict(<<KV("type", Str("map")), KV("values", values)>>)

UncheckedFieldTypes ==
  BoringFieldTypes
  \cup {Str("lsst.missing"), ArrayOf(Str("lsst.missing")),
        Nullable(Str("lsst.missing")), MapOf(Str("string")),
        MapOf(Str("lsst.kind")), MapOf(Str("lsst.missing"))}

UncheckedGraphs ==
  {TypeGraph(t1, t2, t3, t4, t5) :
     t1 \in TopFieldTypes, t2 \in UncheckedFieldTypes, t3 \in SubFieldTypes,
     t4 \in SecondSubFieldTypes, t5 \in SubSubFieldTypes}

InitResolveUnchecked ==
  /\ schema_defs \in UncheckedGraphs
  /\ to_resolve = schema_defs["lsst.top"]
  /\ results = <<>>
  /\ seen_names = {}
  /\ NoRegistry
  /\ NoAlerts

SpecResolveUnchecked == InitResolveUnchecked /\ [][NextResolve]_vars

----------------------------------------------------------------------------
(* Claims about the resolver, checked under SpecResolve *)

IsNamedRecord(x) ==
  IsDict(x) /\ HasKey(x, "type") /\ Get(x, "type") = Str("record") /\ HasKey(x, "name")

\* a definition of the named type name, in full
IsDefinitionOf(x, name) ==
  /\ IsDict(x) /\ HasKey(x, "type") /\ HasKey(x, "name")
  /\ IsStr(Get(x, "type")) /\ Get(x, "type").s \in {"record", "enum", "fixed"}
  /\ Get(x, "name") = Str(name)

RECURSIVE Occurrences(_, _)
RECURSIVE OccurrencesIn(_, _, _)
\* The places of the tree x where the named type name stands, in depth-first
\* declaration order: "def" for a full definition, "ref" for the bare name
\* (the value of a "name" key names its own dict and is no such place)
Occurrences(x, name) ==
  CASE IsStr(x)  -> IF x.s = name THEN <<"ref">> ELSE <<>>
    [] IsList(x) -> OccurrencesIn(x.items, name, FALSE)
    [] IsDict(x) -> (IF IsDefinitionOf(x, name) THEN <<"def">> ELSE <<>>)
                    \o OccurrencesIn(x.items, name, TRUE)
    [] OTHER     -> <<>>

OccurrencesIn(items, name, keyed) ==
  IF items = <<>> THEN <<>>
  ELSE (IF keyed
          THEN IF items[1].key = Str("name") THEN <<>>
               ELSE Occurrences(items[1].val, name)
          ELSE Occurrences(items[1], name))
       \o OccurrencesIn(Tail(items), name, keyed)

CountOf(seq, what) == Cardinality({i \in DOMAIN seq : seq[i] = what})

\* C1: for a root that is a named record, the resolved schema holds the full
\* definition of each named record, enum or fixed type at most once; every
\* other occurrence of the name is the bare name.
C1_EachNamedTypeDefinedAtMostOnce ==
  \A i \in DOMAIN results :
    (IsNamedRecord(to_resolve) /\ results[i].err = "")
      => \A name \in DOMAIN schema_defs :
           CountOf(Occurrences(results[i].out, name), "def") <= 1

\* C1's case: a resolved schema in which a record and the enum each stand in
\* two places
C1_Witness ==
  /\ results # <<>>
  /\ results[1].err = ""
  /\ IsNamedRecord(to_resolve)
  /\ Occurrences(results[1].out, "lsst.kind") = <<"def", "ref">>
  /\ Occurrences(results[1].out, "lsst.subsub") = <<"def", "ref">>

\* What the graph of test_recursive_resolve resolves to
TestGraphResolved ==
  Dict(<<KV("type", Str("record")), KV("name", Str("lsst.top")),
         KV("fields", List(<<
           Field("top_field",
             Dict(<<KV("type", Str("record")), KV("name", Str("lsst.sub")),
                    KV("fields", List(<<
                      Field("sub_field",
                        Dict(<<KV("type", Str("record")),
                               KV("name", Str("lsst.subsub")),
                               KV("fields", List(<<
                                 Field("sub_sub_field", Str("string"))>>))>>)),
                      Field("second_sub_field", Str("lsst.subsub"))>>))>>)),
           Field("boring_field", Str("int"))>>))>>)

\* C2: a named type referenced more than once is defined in full at the
\* first reference met in depth-first declaration order, and every later
\* reference is the bare name; for the graph top{top_field: sub},
\* sub{sub_field: subsub, second_sub_field: subsub} the definition of subsub
\* stands at sub_field and the bare name at second_sub_field.
C2_FirstReferenceInlineLaterBare ==
  \A i \in DOMAIN results :
    (IsNamedRecord(to_resolve) /\ results[i].err = "")
      => /\ \A name \in DOMAIN schema_defs :
              LET occ == Occurrences(results[i].out, name)
              IN \A j \in DOMAIN occ : occ[j] = (IF j = 1 THEN "def" ELSE "ref")
         /\ schema_defs = TestGraph => results[i].out = TestGraphResolved

\* C2's case: the test's graph has been resolved, subsub being referenced twice
C2_Witness ==
  /\ schema_defs = TestGraph
  /\ results # <<>>
  /\ results[1].err = ""
  /\ Occurrences(results[1].out, "lsst.subsub") = <<"def", "ref">>

\* C10: resolving the same type graph again gives the same resolved schema,
\* whether the graph is given as before or with the keys of its dicts in
\* another order: every result agrees with the first one, and so any two
\* agree.  They fail alike, are equal definitions with the same canonical
\* form, each named type stands in full and as a bare name at the same places
\* in both, and calculate_id gives both the same identifier (a result that is
\* the first one's value, key for key, is the same argument to calculate_id).
C10_ResolvingTwiceGivesTheSameSchema ==
  \A i \in DOMAIN results :
    /\ results[i].err = results[1].err
    /\ PyEq(results[i].out, results[1].out)
    /\ Dumps(results[i].out, TRUE) = Dumps(results[1].out, TRUE)
    /\ \A name \in DOMAIN schema_defs :
         Occurrences(results[i].out, name) = Occurrences(results[1].out, name)
    /\ results[i].err = "" /\ results[i].out # results[1].out
         => calculate_id(results[i].out) = calculate_id(results[1].out)

\* C10's case: a graph has been resolved twice, once as it is and once with
\* its keys the other way round, the first call leaving names in its set,
\* and a record referenced twice stands in full only once
C10_Witness ==
  /\ Len(results) >= 2
  /\ results[1].err = "" /\ results[2].err = ""
  /\ results[1].out # results[2].out
  /\ Str("lsst.sub") \in seen_names
  /\ Occurrences(results[2].out, "lsst.sub") = <<"def", "ref">>

\* The full definitions of the named types of defs that stand in the tree
\* out, each with the place it has among the occurrences of its name
InlineExpansions(defs, out) ==
  {p \in UNION {{<<name, j>> : j \in DOMAIN Occurrences(out, name)} :
                  name \in DOMAIN defs} :
     Occurrences(out, p[1])[p[2]] = "def"}

\* a named type whose definition refers to itself, directly or through
\* other named types: its name stands again inside its own expansion
RefersToItself(out, name) ==
  /\ Len(Occurrences(out, name)) >= 2
  /\ Occurrences(out, name)[1] = "def"

\* C11: resolving a type graph from its root record returns a schema, also
\* when a named type refers to itself directly or through other named types,
\* and the schema holds at most as many full definitions as the graph has
\* named types.
C11_ReturnsWithAtMostOneExpansionPerType ==
  \A i \in DOMAIN results :
    IsNamedRecord(to_resolve)
      => /\ results[i].err = ""
         /\ IsNamedRecord(results[i].out)
         /\ Cardinality(InlineExpansions(schema_defs, results[i].out))
              <= Cardinality(DOMAIN schema_defs)

\* C11's case: lsst.subsub has a field of its own type, lsst.top is reached
\* again from lsst.subsub's place in it, and all five named types have been
\* expanded
C11_Witness ==
  /\ results # <<>>
  /\ results[1].err = ""
  /\ Get(Get(schema_defs["lsst.subsub"], "fields").items[1], "type")
       = Str("lsst.subsub")
  /\ Get(Get(schema_defs["lsst.top"], "fields").items[2], "type")
       = Str("lsst.top")
  /\ RefersToItself(results[1].out, "lsst.subsub")
  /\ Occurrences(results[1].out, "lsst.top") = <<"def", "ref">>
  /\ Cardinality(InlineExpansions(schema_defs, results[1].out)) >= 3

----------------------------------------------------------------------------
(* simulate_alert (simulate.py) and Schema.validate (schema.py)            *)

\* The calls of simulate_alert on one definition
MaxAlerts == 2

\* The largest count arrayCount holds
MaxArrayCount == 2

\* The draws of the random generators the model tells apart
NumDraws == 3

\* A bytes object
Bytes(codes) == [k |-> "bytes", s |-> "", n |-> 0, items |-> codes]

\* randomizerFunctionsByType.keys()
PrimitiveTypes ==
  {"null", "boolean", "int", "long", "float", "double", "string", "bytes"}

\* Values the random generators return.  randomFloat returns floats of 24
\* significant bits, randomDouble any double of [0, 1); the longs of the
\* model are those of 32 bits
RandomValues(type) ==
  CASE type = "null"    -> <<JNull>>
    [] type = "boolean" -> <<JBool(TRUE), JBool(FALSE)>>
    [] type = "int"     -> <<Num(-2147483647 - 1), Num(2147483646), Num(0)>>
    [] type = "long"    -> <<Num(2147483647), Num(-1)>>
    [] type = "float"   -> <<Float(2 ^ 29), Float(0), Float(2 ^ 30 - 2 ^ 6)>>
    [] type = "double"  -> <<Float(2 ^ 29 + 1), Float(3)>>
    [] type = "string"  -> <<Str(""), Str("lsst")>>
    [] type = "bytes"   -> <<Bytes(<<>>), Bytes(<<0, 255>>)>>

\* One value of each generator
RandomDraw(i) ==
  [type \in PrimitiveTypes |->
     LET values == RandomValues(type)
     IN values[((i - 1) % Len(values)) + 1]]

\* What a call leaves: the output, the schema as the call has changed it in
\* place, and the exception if one was raised
SimOk(out, schema) == [out |-> out, schema |-> schema, err |-> ""]

SimErr(err, schema) == [out |-> JNull, schema |-> schema, err |-> err]

RECURSIVE Update(_, _)
\* output.update(items)
Update(output, items) ==
  IF items = <<>> THEN output
  ELSE Update(PutItem(output, items[1].key, items[1].val), Tail(items))

\* return {schema['name']: val}, the schema being left as it is in left:
\* the name is hashed when the dict is built
Named(schema, val, left) ==
  IF IsHashable(Get(schema, "name"))
    THEN SimOk(Dict(<<Item(Get(schema, "name"), val)>>), left)
    ELSE SimErr("TypeError", left)

RECURSIVE simulate_alert(_, _, _, _)
RECURSIVE SimulateTyped(_, _, _, _)
RECURSIVE SimulateFields(_, _, _, _, _, _, _)
RECURSIVE SimulateItems(_, _, _, _, _, _)

\* simulate_alert(schema, keepNull, arrayCount), the generators returning
\* rnd[type]: the union step.  keepNull is a list of strs: a name is in it
\* if it equals one of them
simulate_alert(schema, keep, counts, rnd) ==
  IF ~IsDict(schema) THEN SimErr("TypeError", schema)
  ELSE IF ~HasKey(schema, "type") THEN SimErr("KeyError", schema)
  ELSE
    LET type == Get(schema, "type")
    IN IF ~IsList(type) THEN SimulateTyped(schema, keep, counts, rnd)
       ELSE IF Str("null") \in Range(type.items) /\ ~HasKey(schema, "name")
         THEN SimErr("KeyError", schema)
       ELSE IF Str("null") \in Range(type.items)
               /\ IsStr(Get(schema, "name"))
               /\ Get(schema, "name").s \in keep
         THEN Named(schema, JNull, schema)
       ELSE IF type.items = <<>> THEN SimErr("IndexError", schema)
       ELSE \* schema['type'] = schema['type'][0]
            SimulateTyped(SetItem(schema, "type", type.items[1]),
                          keep, counts, rnd)

\* simulate_alert from "if type(schema['type']) == dict" on.  arrayCount is
\* a dict with str keys: the name is hashed to look it up
SimulateTyped(schema, keep, counts, rnd) ==
  LET type == Get(schema, "type")
  IN IF IsDict(type) THEN
       IF ~HasKey(type, "type") THEN SimErr("KeyError", schema)
       ELSE IF ~HasKey(schema, "name") THEN SimErr("KeyError", schema)
       ELSE IF Get(type, "type") = Str("array") THEN
         IF ~IsHashable(Get(schema, "name")) THEN SimErr("TypeError", schema)
         ELSE IF IsStr(Get(schema, "name"))
                 /\ Get(schema, "name").s \in DOMAIN counts THEN
           IF counts[Get(schema, "name").s] <= 0
             THEN Named(schema, List(<<>>), schema)
           ELSE IF ~HasKey(type, "items") THEN SimErr("KeyError", schema)
           ELSE
             LET r == SimulateItems(Get(type, "items"),
                                    counts[Get(schema, "name").s],
                                    keep, counts, rnd, <<>>)
                 left == SetItem(schema, "type", SetItem(type, "items", r.schema))
             IN IF r.err # "" THEN SimErr(r.err, left)
                ELSE Named(schema, List(r.out), left)
         ELSE Named(schema, JNull, schema)
       ELSE \* a nested type
         LET r == simulate_alert(type, keep, counts, rnd)
             left == SetItem(schema, "type", r.schema)
         IN IF r.err # "" THEN SimErr(r.err, left)
            ELSE Named(schema, r.out, left)
     ELSE IF type = Str("record") THEN
       IF ~HasKey(schema, "fields") THEN SimErr("KeyError", schema)
       ELSE IF IsList(Get(schema, "fields"))
         THEN SimulateFields(schema, Get(schema, "fields").items, 1, Dict(<<>>),
                             keep, counts, rnd)
       \* the loop only iterates schema['fields']: an empty dict, str or
       \* bytes gives it no turn; a key, a character or a byte is a str or
       \* an int, which has no ['type']; any other value cannot be iterated
       ELSE IF Get(schema, "fields") \in {Dict(<<>>), Str(""), Bytes(<<>>)}
         THEN SimOk(Dict(<<>>), schema)
       ELSE SimErr("TypeError", schema)
     ELSE IF IsStr(type) /\ type.s \in PrimitiveTypes THEN
       IF ~HasKey(schema, "name") THEN SimErr("KeyError", schema)
       ELSE Named(schema, rnd[type.s], schema)
     ELSE IF IsList(type) THEN SimErr("TypeError", schema)
     ELSE SimErr("ValueError", schema)

\* for field in schema['fields']: output.update(simulate_alert(field, ...))
SimulateFields(schema, fields, i, output, keep, counts, rnd) ==
  IF i > Len(fields) THEN SimOk(output, SetItem(schema, "fields", List(fields)))
  ELSE
    LET r == simulate_alert(fields[i], keep, counts, rnd)
        left == [fields EXCEPT ![i] = r.schema]
    IN IF r.err # "" THEN SimErr(r.err, SetItem(schema, "fields", List(left)))
       ELSE SimulateFields(schema, left, i + 1, Update(output, r.out.items),
                           keep, counts, rnd)

\* for i in range(n): output_array.append(simulate_alert(items, ...))
SimulateItems(items, n, keep, counts, rnd, output) ==
  IF n <= 0 THEN SimOk(output, items)
  ELSE
    LET r == simulate_alert(items, keep, counts, rnd)
    IN IF r.err # "" THEN r
       ELSE SimulateItems(r.schema, n - 1, keep, counts, rnd,
                          Append(output, r.out))

(* Schema.validate: fastavro.parse_schema(self.definition), then           *)
(* fastavro.validate(record, self.definition), which walks the datum and   *)
(* the schema together and raises ValidationError where they part.         *)

\* fastavro's NoValue: what a record without the field and without a
\* default for it gives the field's check
NoValue == [k |-> "novalue", s |-> "", n |-> 0, items |-> <<>>]

RECURSIVE NamedDefinitions(_)
\* The definitions of named types in a schema
NamedDefinitions(x) ==
  CASE IsList(x) -> UNION {NamedDefinitions(x.items[i]) : i \in DOMAIN x.items}
    [] IsDict(x) ->
         (IF HasKey(x, "type") /\ HasKey(x, "name") /\ IsNamedType(x)
            THEN {x} ELSE {})
         \cup UNION {NamedDefinitions(x.items[i].val) : i \in DOMAIN x.items}
    [] OTHER -> {}

IsDefined(name, named) == \E d \in named : Get(d, "name") = Str(name)

RECURSIVE UnknownTypes(_, _)
\* The names a schema uses as types that are neither primitive nor defined
UnknownTypes(type, named) ==
  CASE IsStr(type) ->
         IF type.s \in PrimitiveTypes \/ IsDefined(type.s, named)
           THEN {} ELSE {type.s}
    [] IsList(type) ->
         UNION {UnknownTypes(type.items[i], named) : i \in DOMAIN type.items}
    [] IsDict(type) /\ HasKey(type, "type") ->
         LET kind == Get(type, "type")
         IN CASE kind = Str("record") /\ HasKey(type, "fields") ->
                   LET fields == Get(type, "fields").items
                   IN UNION {UnknownTypes(Get(fields[i], "type"), named) :
                               i \in DOMAIN fields}
              [] kind = Str("array") /\ HasKey(type, "items") ->
                   UnknownTypes(Get(type, "items"), named)
              [] kind \in {Str("enum"), Str("fixed")} -> {}
              [] OTHER -> UnknownTypes(kind, named)
    [] OTHER -> {"?"}

\* datum.get(field['name'], field.get('default', NoValue))
FieldDatum(datum, field) ==
  IF HasKey(datum, Get(field, "name").s) THEN Get(datum, Get(field, "name").s)
  ELSE IF HasKey(field, "default") THEN Get(field, "default")
  ELSE NoValue

RECURSIVE Validates(_, _, _)
\* whether the datum is of the type
Validates(datum, type, named) ==
  CASE IsStr(type) ->
         CASE type.s = "null"    -> datum.k = "null"
           [] type.s = "boolean" -> datum.k = "bool"
           [] type.s = "string"  -> datum.k = "str"
           [] type.s = "bytes"   -> datum.k = "bytes"
           [] type.s \in {"int", "long"}     -> datum.k = "num"
           [] type.s \in {"float", "double"} -> datum.k \in {"float", "num"}
           [] OTHER ->
                \E d \in named :
                  Get(d, "name") = type /\ Validates(datum, d, named)
    [] IsList(type) ->
         \E i \in DOMAIN type.items : Validates(datum, type.items[i], named)
    [] IsDict(type) ->
         LET kind == Get(type, "type")
         IN CASE kind = Str("record") ->
                   /\ datum.k = "dict"
                   /\ LET fields == Get(type, "fields").items
                      IN \A i \in DOMAIN fields :
                           Validates(FieldDatum(datum, fields[i]),
                                     Get(fields[i], "type"), named)
              [] kind = Str("array") ->
                   /\ datum.k = "list"
                   /\ \A i \in DOMAIN datum.items :
                        Validates(datum.items[i], Get(type, "items"), named)
              [] kind = Str("enum") ->
                   /\ datum.k = "str"
                   /\ datum \in Range(Get(type, "symbols").items)
              [] kind = Str("fixed") ->
                   /\ datum.k = "bytes"
                   /\ Len(datum.items) = Get(type, "size").n
              [] OTHER -> Validates(datum, kind, named)
    [] OTHER -> FALSE

\* Schema.validate(record)
Schema_validate(schema, record) ==
  IF UnknownTypes(schema, NamedDefinitions(schema)) # {}
    THEN Raised("UnknownType")
  ELSE IF Validates(record, schema, NamedDefinitions(schema))
    THEN Returned(TRUE)
  ELSE Raised("ValidationError")

(* The schemas the simulator is given: an alert record of three fields,    *)
(* one of each of the three groups below.                                  *)

OptionalField(name, type) ==
  Dict(<<KV("name", Str(name)), KV("type", Nullable(type)),
         KV("default", JNull)>>)

DiaSource ==
  Dict(<<KV("type", Str("record")), KV("name", Str("lsst.diaSource")),
         KV("fields", List(<<Field("diaSourceId", Str("long")),
                             OptionalField("psFlux", Str("float"))>>))>>)

SsObject ==
  Dict(<<KV("type", Str("record")), KV("name", Str("lsst.ssObject")),
         KV("fields", List(<<Field("ssObjectId", Str("long"))>>))>>)

Alert(fields) ==
  Dict(<<KV("type", Str("record")), KV("name", Str("lsst.alert")),
         KV("fields", List(fields))>>)

PlainFields ==
  {Field("alertId", Str("long")), Field("nobs", Str("int")),
   Field("snr", Str("float")), Field("ra", Str("double")),
   Field("band", Str("string")), Field("flag", Str("boolean")),
   Field("stamp", Str("bytes")), Field("nothing", Str("null")),
   Field("kind", Enum("lsst.kind", <<Str("NEW"), Str("OLD")>>)),
   Field("md5", Fixed("lsst.md5", 2))}

OptionalFields ==
  {OptionalField("ssObject", SsObject), OptionalField("ssObject", Str("long")),
   Field("ssObject", List(<<SsObject, Str("null")>>))}

ArrayFields ==
  {OptionalField("prvDiaSources", ArrayOf(DiaSource)),
   Field("prvDiaSources", ArrayOf(DiaSource)),
   Field("flags", ArrayOf(Str("int"))),
   Field("diaSource", DiaSource)}

AlertSchemas ==
  {Alert(<<f1, f2, f3>>) :
     f1 \in PlainFields, f2 \in OptionalFields, f3 \in ArrayFields}

KeepNulls == SUBSET {"ssObject", "prvDiaSources"}

ArrayCounts ==
  UNION {[names -> 0..MaxArrayCount] :
           names \in {{}, {"prvDiaSources"}, {"flags"}}}

InitSimulate ==
  /\ definition \in AlertSchemas
  /\ keepNull \in KeepNulls
  /\ arrayCount \in ArrayCounts
  /\ alerts = <<>>
  /\ raised = ""
  /\ valid = <<>>
  /\ messages = <<>>
  /\ decoded = <<>>
  /\ stored = NoVal
  /\ retrieved = NoVal
  /\ NoRegistry
  /\ NoResolve

\* simulate_alert(schema.definition, keepNull, arrayCount)
SimulateAlert(rnd) ==
  /\ raised = ""
  /\ Len(alerts) < MaxAlerts
  /\ LET r == simulate_alert(definition, keepNull, arrayCount, rnd)
     IN /\ definition' = r.schema
        /\ raised' = r.err
        /\ alerts' = IF r.err = "" THEN Append(alerts, r.out) ELSE alerts
  /\ UNCHANGED <<keepNull, arrayCount, valid, codecVars, regVars, resVars>>

\* for alert in alerts: assert(schema.validate(alert)), once the alerts
\* are there: the loop takes one more turn, which it does not after a turn
\* in which validate raised or returned False
Validate ==
  /\ raised = ""
  /\ Len(valid) < Len(alerts)
  /\ \A i \in DOMAIN valid : valid[i].err = "" /\ valid[i].val = TRUE
  /\ valid' = Append(valid, Schema_validate(definition, alerts[Len(valid) + 1]))
  /\ UNCHANGED <<definition, keepNull, arrayCount, alerts, raised,
                 codecVars, regVars, resVars>>

NextSimulate ==
  \/ \E i \in 1..NumDraws : SimulateAlert(RandomDraw(i))
  \/ Validate

SpecSimulate == InitSimulate /\ [][NextSimulate]_vars

----------------------------------------------------------------------------
(* Schema.serialize and Schema.deserialize (schema.py): fastavro's         *)
(* schemaless_writer and schemaless_reader, which write and read the Avro  *)
(* binary encoding of a datum, byte by byte, as the schema directs.        *)

\* The strings that stand in records
DataStrings == {"", "lsst", "NEW", "OLD"}

Zeros(w) == [i \in 1..w |-> 0]

\* The w bits of n, most significant first
BitsMsb(n, w) == [i \in 1..w |-> (n \div (2 ^ (w - i))) % 2]

RECURSIVE ValueMsb(_)
ValueMsb(bits) ==
  IF bits = <<>> THEN 0
  ELSE 2 * ValueMsb(SubSeq(bits, 1, Len(bits) - 1)) + bits[Len(bits)]

RECURSIVE ILog2(_)
\* The place of the leading bit of n > 0
ILog2(n) == IF n < 2 THEN 0 ELSE 1 + ILog2(n \div 2)

\* The bytes of a word, least significant byte first
WordBytes(bits) ==
  [i \in 1..(Len(bits) \div 8) |->
     ValueMsb(SubSeq(bits, Len(bits) - 8 * i + 1, Len(bits) - 8 * i + 8))]

RECURSIVE BytesWord(_)
\* The word of bytes that stand least significant first
BytesWord(bytes) ==
  IF bytes = <<>> THEN <<>> ELSE BytesWord(Tail(bytes)) \o BitsMsb(bytes[1], 8)

Abs(n) == IF n < 0 THEN -n ELSE n

\* zigzag: (n << 1) ^ (n >> 63), least significant bit first
ZigZagBits(n) ==
  IF n >= 0 THEN <<0>> \o Bits(n, 31) ELSE <<1>> \o Bits(-(n + 1), 31)

\* write_long: the zigzag value, seven bits to a byte, low bits first, the
\* high bit of a byte telling that another follows
EncodeLong(n) ==
  LET bits == ZigZagBits(n) \o Zeros(3)
      group(g) == BitsValue(SubSeq(bits, 7 * g - 6, 7 * g))
      used == {g \in 1..5 : group(g) # 0} \cup {1}
      last == CHOOSE g \in used : \A h \in used : h <= g
  IN [g \in 1..last |-> group(g) + (IF g < last THEN 128 ELSE 0)]

RECURSIVE LongBits(_, _)
LongBits(bytes, pos) ==
  Bits(bytes[pos] % 128, 7)
  \o (IF bytes[pos] >= 128 THEN LongBits(bytes, pos + 1) ELSE <<>>)

\* read_long: the value, and the place of the byte after it
DecodeLong(bytes, pos) ==
  LET bits == LongBits(bytes, pos)
      upper == BitsValue(Tail(bits))
  IN [val |-> IF bits[1] = 0 THEN upper ELSE -upper - 1,
      pos |-> pos + (Len(bits) \div 7)]

\* The float nearest to n > 0 (ties to even) as q * 2^(e - 23), with
\* 2^23 <= q < 2^24: what struct.pack('<f', ...) keeps of a double
Single(n) ==
  LET e == ILog2(n)
      q == IF e <= 23 THEN n * (2 ^ (23 - e)) ELSE n \div (2 ^ (e - 23))
      rest == IF e <= 23 THEN 0 ELSE n % (2 ^ (e - 23))
      half == IF e <= 23 THEN 1 ELSE 2 ^ (e - 24)
      up == e > 23 /\ (rest > half \/ (rest = half /\ q % 2 = 1))
  IN IF up /\ q + 1 = 2 ^ 24 THEN [q |-> 2 ^ 23, e |-> e + 1]
     ELSE [q |-> IF up THEN q + 1 ELSE q, e |-> e]

\* write_float: four bytes, IEEE 754 single precision, little-endian
EncodeFloat(n) ==
  IF n = 0 THEN Zeros(4)
  ELSE LET single == Single(Abs(n))
       IN WordBytes(<<IF n < 0 THEN 1 ELSE 0>>
                    \o BitsMsb(single.e - FloatPlaces + 127, 8)
                    \o BitsMsb(single.q - 2 ^ 23, 23))

\* read_float
DecodeFloat(bytes) ==
  LET bits == BytesWord(bytes)
      exponent == ValueMsb(SubSeq(bits, 2, 9))
      q == 2 ^ 23 + ValueMsb(SubSeq(bits, 10, 32))
      e == exponent - 127 + FloatPlaces
      n == IF e >= 23 THEN q * (2 ^ (e - 23)) ELSE q \div (2 ^ (23 - e))
  IN IF bytes = Zeros(4) THEN 0 ELSE IF bits[1] = 1 THEN -n ELSE n

\* write_double: eight bytes, IEEE 754 double precision, little-endian
EncodeDouble(n) ==
  IF n = 0 THEN Zeros(8)
  ELSE LET e == ILog2(Abs(n))
       IN WordBytes(<<IF n < 0 THEN 1 ELSE 0>>
                    \o BitsMsb(e - FloatPlaces + 1023, 11)
                    \o BitsMsb(Abs(n) - 2 ^ e, e) \o Zeros(52 - e))

\* read_double
DecodeDouble(bytes) ==
  LET bits == BytesWord(bytes)
      e == ValueMsb(SubSeq(bits, 2, 12)) - 1023 + FloatPlaces
      n == 2 ^ e + ValueMsb(SubSeq(bits, 13, 12 + e))
  IN IF bytes = Zeros(8) THEN 0 ELSE IF bits[1] = 1 THEN -n ELSE n

\* The float a datum of an Avro float or double field stands for: an int is
\* written as the float of its value
FloatOf(datum) ==
  IF datum.k = "num" THEN datum.n * (2 ^ FloatPlaces) ELSE datum.n

\* The definition a name stands for
NamedType(name, named) == CHOOSE d \in named : Get(d, "name") = Str(name)

\* datum.get(field['name'], field.get('default')): what is written for a field
WriterDatum(datum, field) ==
  IF HasKey(datum, Get(field, "name").s) THEN Get(datum, Get(field, "name").s)
  ELSE IF HasKey(field, "default") THEN Get(field, "default")
  ELSE JNull

\* how many of the record's fields the datum has
FieldsHeld(datum, type, named) ==
  LET record == IF IsStr(type) THEN NamedType(type.s, named) ELSE type
      fields == Get(record, "fields").items
  IN Cardinality({i \in DOMAIN fields : HasKey(datum, Get(fields[i], "name").s)})

IsRecordType(type, named) ==
  \/ IsDict(type) /\ Get(type, "type") = Str("record")
  \/ /\ IsStr(type) /\ type.s \notin PrimitiveTypes
     /\ Get(NamedType(type.s, named), "type") = Str("record")

\* write_union's choice: the first branch the datum is valid for, unless
\* that is a record; then, among the record branches before the first
\* other valid branch, the first of those holding most of the datum's keys
UnionBranch(datum, type, named) ==
  LET ok == {i \in DOMAIN type.items : Validates(datum, type.items[i], named)}
      plain == {i \in ok : ~IsRecordType(type.items[i], named)}
      stop == IF plain = {} THEN Len(type.items) + 1
              ELSE CHOOSE i \in plain : \A j \in plain : i <= j
      records == {i \in ok : i < stop}
  IN IF records = {} THEN stop
     ELSE CHOOSE i \in records :
            \A j \in records :
              \/ FieldsHeld(datum, type.items[j], named)
                   < FieldsHeld(datum, type.items[i], named)
              \/ /\ FieldsHeld(datum, type.items[j], named)
                      = FieldsHeld(datum, type.items[i], named)
                 /\ i <= j

\* The place of a symbol among an enum's symbols
SymbolIndex(datum, symbols) == CHOOSE i \in DOMAIN symbols : symbols[i] = datum

RECURSIVE Encode(_, _, _)
RECURSIVE EncodeFields(_, _, _)
RECURSIVE EncodeItems(_, _, _)

\* write_data(datum, type): the bytes of a datum that is valid for the type
Encode(datum, type, named) ==
  CASE IsStr(type) ->
         CASE type.s = "null"    -> <<>>
           [] type.s = "boolean" -> <<datum.n>>
           [] type.s \in {"int", "long"} -> EncodeLong(datum.n)
           [] type.s = "float"   -> EncodeFloat(FloatOf(datum))
           [] type.s = "double"  -> EncodeDouble(FloatOf(datum))
           [] type.s = "bytes"   -> EncodeLong(Len(datum.items)) \o datum.items
           [] type.s = "string"  ->
                EncodeLong(Len(StrCodes(datum.s))) \o StrCodes(datum.s)
           [] OTHER -> Encode(datum, NamedType(type.s, named), named)
    [] IsList(type) ->
         LET i == UnionBranch(datum, type, named)
         IN EncodeLong(i - 1) \o Encode(datum, type.items[i], named)
    [] IsDict(type) ->
         LET kind == Get(type, "type")
         IN CASE kind = Str("record") ->
                   EncodeFields(datum, Get(type, "fields").items, named)
              [] kind = Str("array") ->
                   (IF datum.items = <<>> THEN <<>>
                    ELSE EncodeLong(Len(datum.items))
                         \o EncodeItems(datum.items, Get(type, "items"), named))
                   \o EncodeLong(0)
              [] kind = Str("enum") ->
                   EncodeLong(SymbolIndex(datum, Get(type, "symbols").items) - 1)
              [] kind = Str("fixed") -> datum.items
              [] OTHER -> Encode(datum, kind, named)

\* write_record: the fields in the schema's order
EncodeFields(datum, fields, named) ==
  IF fields = <<>> THEN <<>>
  ELSE Encode(WriterDatum(datum, fields[1]), Get(fields[1], "type"), named)
       \o EncodeFields(datum, Tail(fields), named)

EncodeItems(items, type, named) ==
  IF items = <<>> THEN <<>>
  ELSE Encode(items[1], type, named) \o EncodeItems(Tail(items), type, named)

\* a string of the given bytes
StrOf(codes) == Str(CHOOSE s \in DataStrings : StrCodes(s) = codes)

RECURSIVE Decode(_, _, _, _)
RECURSIVE DecodeFields(_, _, _, _, _)
RECURSIVE DecodeBlocks(_, _, _, _, _)
RECURSIVE DecodeItems(_, _, _, _, _, _)

\* read_data(type) at pos: the datum, and the place of the byte after it
Decode(bytes, pos, type, named) ==
  CASE IsStr(type) ->
         CASE type.s = "null"    -> [val |-> JNull, pos |-> pos]
           [] type.s = "boolean" ->
                [val |-> JBool(bytes[pos] # 0), pos |-> pos + 1]
           [] type.s \in {"int", "long"} ->
                LET n == DecodeLong(bytes, pos)
                IN [val |-> Num(n.val), pos |-> n.pos]
           [] type.s = "float"   ->
                [val |-> Float(DecodeFloat(SubSeq(bytes, pos, pos + 3))),
                 pos |-> pos + 4]
           [] type.s = "double"  ->
                [val |-> Float(DecodeDouble(SubSeq(bytes, pos, pos + 7))),
                 pos |-> pos + 8]
           [] type.s = "bytes"   ->
                LET n == DecodeLong(bytes, pos)
                IN [val |-> Bytes(SubSeq(bytes, n.pos, n.pos + n.val - 1)),
                    pos |-> n.pos + n.val]
           [] type.s = "string"  ->
                LET n == DecodeLong(bytes, pos)
                IN [val |-> StrOf(SubSeq(bytes, n.pos, n.pos + n.val - 1)),
                    pos |-> n.pos + n.val]
           [] OTHER -> Decode(bytes, pos, NamedType(type.s, named), named)
    [] IsList(type) ->
         LET i == DecodeLong(bytes, pos)
         IN Decode(bytes, i.pos, type.items[i.val + 1], named)
    [] IsDict(type) ->
         LET kind == Get(type, "type")
         IN CASE kind = Str("record") ->
                   DecodeFields(bytes, pos, Get(type, "fields").items, named,
                                Dict(<<>>))
              [] kind = Str("array") ->
                   DecodeBlocks(bytes, pos, Get(type, "items"), named, <<>>)
              [] kind = Str("enum") ->
                   LET i == DecodeLong(bytes, pos)
                   IN [val |-> Get(type, "symbols").items[i.val + 1],
                       pos |-> i.pos]
              [] kind = Str("fixed") ->
                   LET size == Get(type, "size").n
                   IN [val |-> Bytes(SubSeq(bytes, pos, pos + size - 1)),
                       pos |-> pos + size]
              [] OTHER -> Decode(bytes, pos, kind, named)

\* read_record: record[field['name']] = read_data(field['type'])
DecodeFields(bytes, pos, fields, named, record) ==
  IF fields = <<>> THEN [val |-> record, pos |-> pos]
  ELSE LET r == Decode(bytes, pos, Get(fields[1], "type"), named)
       IN DecodeFields(bytes, r.pos, Tail(fields), named,
                       SetItem(record, Get(fields[1], "name").s, r.val))

\* read_array: blocks of items, each led by its count, until a count of 0
DecodeBlocks(bytes, pos, type, named, items) ==
  LET n == DecodeLong(bytes, pos)
  IN IF n.val = 0 THEN [val |-> List(items), pos |-> n.pos]
     ELSE LET r == DecodeItems(bytes, n.pos, type, named, n.val, items)
          IN DecodeBlocks(bytes, r.pos, type, named, r.val)

DecodeItems(bytes, pos, type, named, n, items) ==
  IF n = 0 THEN [val |-> items, pos |-> pos]
  ELSE LET r == Decode(bytes, pos, type, named)
       IN DecodeItems(bytes, r.pos, type, named, n - 1, Append(items, r.val))

\* A value the model does not tell: the bytes fastavro writes for a record
\* that does not follow the schema, and what it reads from them
Unknown == [k |-> "unknown", s |-> "", n |-> 0, items |-> <<>>]

\* What fastavro.schemaless_writer raises on a record it cannot write; the
\* kind of the exception is fastavro's
WriterError == "ValueError"

\* What fastavro.schemaless_reader raises on bytes it cannot read
MessageError == "EOFError"

\* Schema.serialize(record): the outcomes the call can have.  A record that
\* follows the schema is written as the Avro format has it.  Nothing
\* validates the record before the writer is given it, and whether the
\* writer raises on another record or writes something is fastavro's
Schema_serialize(schema, record) ==
  IF UnknownTypes(schema, NamedDefinitions(schema)) # {}
    THEN {Raised("UnknownType")}
  ELSE IF Validates(record, schema, NamedDefinitions(schema))
    THEN {Returned(Bytes(Encode(record, schema, NamedDefinitions(schema))))}
  ELSE {Raised(WriterError), Returned(Unknown)}

\* Schema.deserialize(record): the outcomes the call can have
Schema_deserialize(schema, message) ==
  IF message = Unknown
    THEN {Raised(MessageError), Returned(Unknown)}
    ELSE {Returned(Decode(message.items, 1, schema,
                          NamedDefinitions(schema)).val)}

(* Schema.store_alerts (fastavro.writer) and Schema.retrieve_alerts         *)
(* (io.py, retrieve_alerts over fastavro.reader).  A stream is the schema  *)
(* the writer was given, the blocks written, and whether the file object   *)
(* is closed; a stream nothing was written to has no header.  A block is   *)
(* the number of its records and of its bytes, and the bytes of the        *)
(* records one after the other.  The writer buffers the records it is      *)
(* given and writes a block when the buffer has reached its sync interval, *)
(* and at the end; the reader reads a whole block when it is asked for the *)
(* block's first record, and gives the other records of the block from     *)
(* memory.                                                                 *)

\* The records one store_alerts call is given
MaxStored == 2

\* fastavro.writer's sync_interval, which store_alerts leaves at its
\* default: the bytes buffered at which a block is written
SyncInterval == 16000

Block(count, bytes) == [count |-> count, size |-> Len(bytes), bytes |-> bytes]

RECURSIVE WriteBlocks(_, _, _, _)
RECURSIVE WriteBlock(_, _, _, _)

\* for record in records: write(record), and then flush(): what is
\* buffered at the end is written as the last block
WriteBlocks(schema, records, buffer, blocks) ==
  IF records = <<>>
    THEN IF buffer.count > 0 THEN Append(blocks, buffer) ELSE blocks
  ELSE WriteBlock(schema, Tail(records),
                  Block(buffer.count + 1,
                        buffer.bytes \o Encode(Head(records), schema,
                                               NamedDefinitions(schema))),
                  blocks)

\* write(record), once the record is in the buffer: the buffer is written
\* as a block if it holds sync_interval bytes or more
WriteBlock(schema, records, buffer, blocks) ==
  IF buffer.size >= SyncInterval
    THEN WriteBlocks(schema, records, Block(0, <<>>), Append(blocks, buffer))
    ELSE WriteBlocks(schema, records, buffer, blocks)

\* Schema.store_alerts(fp, records): the header with the writer's schema,
\* then the blocks
Schema_store_alerts(schema, records) ==
  [schema |-> schema,
   blocks |-> WriteBlocks(schema, records, Block(0, <<>>), <<>>),
   closed |-> FALSE]

\* a stream that ends inside its block b
Truncated(fp, b) ==
  [fp EXCEPT !.blocks =
     SubSeq(fp.blocks, 1, b - 1)
     \o <<[fp.blocks[b] EXCEPT !.bytes = SubSeq(@, 1, Len(@) - 1)]>>]

\* whether all the bytes of block b are there
BlockReadable(fp, b) == Len(fp.blocks[b].bytes) = fp.blocks[b].size

\* whether all the bytes of every block are there
Whole(fp) == \A b \in DOMAIN fp.blocks : BlockReadable(fp, b)

\* whether the first record of the stream can be read: there is none, or
\* all the bytes of its block are there
FirstRecordReadable(fp) == fp.blocks = <<>> \/ BlockReadable(fp, 1)

\* What next(reader) raises on a block that ends early: an exception of
\* fastavro, which is no StopIteration
ReaderError == "EOFError"

RECURSIVE HasCodes(_, _)
\* sub in codes, for two strings given as their characters
HasCodes(codes, sub) ==
  IF Len(codes) < Len(sub) THEN FALSE
  ELSE SubSeq(codes, 1, Len(sub)) = sub \/ HasCodes(Tail(codes), sub)

\* '__' in key and '__len__' not in key: the keys fastavro has put into a
\* definition it has parsed
IsHintKey(key) ==
  /\ IsStr(key)
  /\ HasCodes(StrCodes(key.s), StrCodes("__"))
  /\ ~HasCodes(StrCodes(key.s), StrCodes("__len__"))

\* The definition without the keys fastavro has put at its top
WithoutHints(schema) ==
  Dict(SelectSeq(schema.items, LAMBDA item : ~IsHintKey(item.key)))

\* reader.writer_schema: the schema of the header as the reader has parsed
\* it, which holds none of the writer's hint keys
writer_schema(fp) == WithoutHints(fp.schema)

\* fastavro.reader(fp, reader_schema): the reader before it has read a
\* block.  It reads the records as reader_schema has them, or as the
\* writer's schema has them if it is given none; it holds block number
\* block, has given the first given records of it, and the next one starts
\* at pos
Reader(fp, reader_schema) ==
  [schema |-> IF reader_schema = NoVal THEN writer_schema(fp) ELSE reader_schema,
   block  |-> 0,
   given  |-> 0,
   pos    |-> 1]

\* itertools.chain(head, reader): the records of the list head, then those
\* of the reader; [] is a chain without a reader
Chain(head, reader) == [head |-> head, reader |-> reader]

\* read_data at pos of a block: a record of the writer's schema read as
\* the reader's schema has it; the model tells the record where the two
\* schemas are the same but for hint keys
ReadData(bytes, pos, schema, fp) ==
  IF PyEq(WithoutHints(schema), writer_schema(fp))
    THEN Decode(bytes, pos, fp.schema, NamedDefinitions(fp.schema))
    ELSE [val |-> Unknown, pos |-> pos]

\* the next record of the block the reader holds, read from memory
FromBlock(reader, block, datum) ==
  [err |-> "", val |-> datum.val,
   records |-> Chain(<<>>, [reader EXCEPT !.given = @ + 1, !.pos = datum.pos])]

\* next(reader): the next record of the block held; when the block is
\* used up the reader reads on in the file, which fails if the file has
\* been closed, ends the records if no block is left, and fails if the
\* next block ends early
ReaderNext(reader, fp) ==
  IF reader.block > 0 /\ reader.given < fp.blocks[reader.block].count
    THEN FromBlock(reader, fp.blocks[reader.block],
                   ReadData(fp.blocks[reader.block].bytes, reader.pos,
                            reader.schema, fp))
  ELSE IF fp.closed
    THEN [err |-> "ValueError", val |-> NoVal, records |-> Chain(<<>>, reader)]
  ELSE IF reader.block = Len(fp.blocks)
    THEN [err |-> "StopIteration", val |-> NoVal,
          records |-> Chain(<<>>, reader)]
  ELSE IF ~BlockReadable(fp, reader.block + 1)
    THEN [err |-> ReaderError, val |-> NoVal, records |-> Chain(<<>>, reader)]
  ELSE FromBlock([reader EXCEPT !.block = @ + 1, !.given = 0, !.pos = 1],
                 fp.blocks[reader.block + 1],
                 ReadData(fp.blocks[reader.block + 1].bytes, 1,
                          reader.schema, fp))

\* a bug retrieve_alerts could have: the record peeked at is chained in
\* front of a reader that starts again from the first record
PeekedAgain(fp, reader_schema, first) ==
  IF first.err = "StopIteration"
    THEN Returned([schema  |-> Schema_init(NewFastavro, writer_schema(fp), {}).out,
                   records |-> Chain(<<>>, NoVal)])
  ELSE IF first.err # "" THEN Raised(first.err)
  ELSE Returned([schema  |-> Schema_init(NewFastavro, writer_schema(fp), {}).out,
                 records |-> Chain(<<first.val>>, Reader(fp, reader_schema))])

retrieve_alerts_repeats_peeked(fp, reader_schema) ==
  IF fp = NoVal THEN Raised("RuntimeError")
  ELSE IF fp.closed THEN Raised("RuntimeError")
  ELSE PeekedAgain(fp, reader_schema,
                   ReaderNext(Reader(fp, reader_schema), fp))

\* first_record = next(reader), and what retrieve_alerts returns after it:
\* only StopIteration is caught, and gives the empty list for the records;
\* a record is chained back in front of the reader; the schema is
\* Schema(reader.writer_schema), of a fastavro without SCHEMA_DEFS
Peeked(fp, reader_schema, first) ==
  IF first.err = "StopIteration"
    THEN Returned([schema  |-> Schema_init(NewFastavro, writer_schema(fp), {}).out,
                   records |-> Chain(<<>>, NoVal)])
  ELSE IF first.err # "" THEN Raised(first.err)
  ELSE Returned([schema  |-> Schema_init(NewFastavro, writer_schema(fp), {}).out,
                 records |-> Chain(<<first.val>>, first.records.reader)])

\* retrieve_alerts(fp, reader_schema): fastavro.reader fails on a stream
\* without a header or on a closed file, and the failure is raised as
\* RuntimeError; the first record is read ahead, outside that try
retrieve_alerts(fp, reader_schema) ==
  IF fp = NoVal THEN Raised("RuntimeError")
  ELSE IF fp.closed THEN Raised("RuntimeError")
  ELSE Peeked(fp, reader_schema, ReaderNext(Reader(fp, reader_schema), fp))

\* next(records) on the chain retrieve_alerts returned: the record, or the
\* exception, and the chain as the call leaves it.  The records of the
\* list come first, then the reader's; a chain without a reader has none
NextOf(records, fp) ==
  IF records.head # <<>>
    THEN [err |-> "", val |-> Head(records.head),
          records |-> Chain(Tail(records.head), records.reader)]
  ELSE IF records.reader = NoVal
    THEN [err |-> "StopIteration", val |-> NoVal, records |-> records]
  ELSE ReaderNext(records.reader, fp)

RECURSIVE ListOf(_, _, _)
RECURSIVE ListNext(_, _, _)

\* list(records): next(records) until it raises; the list is what was
\* read before
ListOf(records, fp, list) == ListNext(NextOf(records, fp), fp, list)

ListNext(next, fp, list) ==
  IF next.err # ""
    THEN [err |-> next.err, val |-> list, records |-> next.records]
    ELSE ListOf(next.records, fp, Append(list, next.val))

(* The schemas and records the codec is given: an alert record of two     *)
(* fields, and for each field values of its type, values of another type, *)
(* and the field left out.                                                 *)

DefaultField(name, type, default) ==
  Dict(<<KV("name", Str(name)), KV("type", type), KV("default", default)>>)

CodecFirstFields == PlainFields \cup {DefaultField("nobs", Str("int"), Num(0))}

CodecSecondFields ==
  {OptionalField("ssObject", SsObject), OptionalField("psFlux", Str("float")),
   Field("ssObject", List(<<SsObject, Str("null")>>)),
   OptionalField("prvDiaSources", ArrayOf(DiaSource)),
   Field("prvDiaSources", ArrayOf(DiaSource))}

\* fastavro.parse_schema's mark on a definition; a Schema made of a parsed
\* definition by a fastavro without SCHEMA_DEFS holds it
Parsed(schema) == Dict(schema.items \o <<KV("__fastavro_parsed", JBool(TRUE))>>)

PlainCodecSchemas ==
  {Alert(<<f1, f2>>) : f1 \in CodecFirstFields, f2 \in CodecSecondFields}

ParsedCodecSchemas ==
  {Parsed(Alert(<<Field("alertId", Str("long")), f2>>)) : f2 \in CodecSecondFields}

CodecSchemas == PlainCodecSchemas \cup ParsedCodecSchemas

SsObjects ==
  <<Dict(<<KV("ssObjectId", Num(7))>>),
    Dict(<<KV("ssObjectId", Num(-1)), KV("note", Str("lsst"))>>)>>

DiaSources ==
  <<Dict(<<KV("diaSourceId", Num(1)), KV("psFlux", Float(2 ^ 29 + 96))>>),
    Dict(<<KV("diaSourceId", Num(2))>>),
    Dict(<<KV("psFlux", JNull), KV("diaSourceId", Num(3))>>)>>

\* A cutout that fills a block of the writer by itself
LargeStamp == Bytes([i \in 1..SyncInterval |-> 0])

RECURSIVE ValuesOf(_)
\* Values for a field of the type, valid ones and others
ValuesOf(type) ==
  CASE type = Str("null")    -> <<JNull>>
    [] type = Str("boolean") -> <<JBool(TRUE), JBool(FALSE)>>
    [] type = Str("int")     -> <<Num(0), Num(-2147483647 - 1)>>
    [] type = Str("long")    -> <<Num(2147483647), Num(-65)>>
    [] type = Str("float")   -> <<Float(2 ^ 29), Float(2 ^ 29 + 1), Float(-3)>>
    [] type = Str("double")  -> <<Float(2 ^ 29 + 1), Float(0)>>
    [] type = Str("string")  -> <<Str("lsst"), Str(""), Num(0)>>
    [] type = Str("bytes")   -> <<LargeStamp, Bytes(<<0, 255>>), Bytes(<<>>)>>
    [] IsList(type) -> ValuesOf(type.items[1]) \o ValuesOf(type.items[2])
    [] IsDict(type) /\ Get(type, "type") = Str("enum") ->
         <<Str("OLD"), Str("NEW"), Str("lsst")>>
    [] IsDict(type) /\ Get(type, "type") = Str("fixed") ->
         <<Bytes(<<0, 255>>), Bytes(<<7>>)>>
    [] IsDict(type) /\ Get(type, "type") = Str("array") ->
         <<List(<<>>), List(<<DiaSources[1], DiaSources[2]>>),
           List(<<DiaSources[3]>>)>>
    [] type = SsObject -> SsObjects

\* What a record can hold for a field: a value under its name, or nothing
EntriesOf(field) ==
  [i \in DOMAIN ValuesOf(Get(field, "type")) |->
     <<KV(Get(field, "name").s, ValuesOf(Get(field, "type"))[i])>>]
  \o << <<>> >>

\* The records for a schema, in a row: each entry of the first field with
\* each of the second, without and with a key that is no field
RecordsOf(schema) ==
  LET fields == Get(schema, "fields").items
      first == EntriesOf(fields[1])
      second == EntriesOf(fields[2])
      extra == << <<>>, <<KV("extra", Num(1))>> >>
  IN [i \in 1..(Len(first) * Len(second) * 2) |->
        Dict(second[(((i - 1) \div Len(first)) % Len(second)) + 1]
             \o first[((i - 1) % Len(first)) + 1]
             \o extra[((i - 1) \div (Len(first) * Len(second))) + 1])]

\* Up to MaxStored records of the row, five places apart
RecordRuns(schema) ==
  LET row == RecordsOf(schema)
  IN {[j \in 1..n |-> row[((start + 5 * (j - 1) - 1) % Len(row)) + 1]] :
        start \in DOMAIN row, n \in 1..MaxStored}
     \cup {<<>>}

InitCodec ==
  /\ definition \in CodecSchemas
  /\ alerts \in RecordRuns(definition)
  /\ keepNull = {}
  /\ arrayCount = <<>>
  /\ raised = ""
  /\ valid = <<>>
  /\ messages = [i \in DOMAIN alerts |-> NoVal]
  /\ decoded = [i \in DOMAIN alerts |-> NoVal]
  /\ stored = NoVal
  /\ retrieved = NoVal
  /\ NoRegistry
  /\ NoResolve

\* schema.serialize(alerts[i]), in a run that sends its records as messages
\* (validateAvroRoundTrip.py), whether or not validate was called
Serialize(i) ==
  /\ i \in DOMAIN alerts
  /\ messages[i] = NoVal
  /\ stored = NoVal
  /\ \E message \in Schema_serialize(definition, alerts[i]) :
       messages' = [messages EXCEPT ![i] = message]
  /\ UNCHANGED <<simVars, decoded, stored, retrieved, regVars, resVars>>

\* schema.deserialize(messages[i]), of a message serialize has returned
Deserialize(i) ==
  /\ i \in DOMAIN messages
  /\ messages[i] # NoVal
  /\ messages[i].err = ""
  /\ decoded[i] = NoVal
  /\ \E message \in Schema_deserialize(definition, messages[i].val) :
       decoded' = [decoded EXCEPT ![i] = message]
  /\ UNCHANGED <<simVars, messages, stored, retrieved, regVars, resVars>>

\* schema.store_alerts(f, alerts), of records validate has accepted, in a
\* run that writes its records to a file (simulateAlerts.py)
StoreAlerts ==
  /\ stored = NoVal
  /\ \A i \in DOMAIN messages : messages[i] = NoVal
  /\ Len(valid) = Len(alerts)
  /\ \A i \in DOMAIN valid : valid[i].err = "" /\ valid[i].val = TRUE
  /\ stored' = Schema_store_alerts(definition, alerts)
  /\ UNCHANGED <<simVars, messages, decoded, retrieved, regVars, resVars>>

\* The file is cut short inside a block the reader has not read yet
Truncate(b) ==
  /\ stored # NoVal
  /\ ~stored.closed
  /\ b \in DOMAIN stored.blocks
  /\ stored.blocks[b].size > 0
  /\ Whole(stored)
  /\ retrieved # NoVal
       => /\ retrieved.err = ""
          /\ retrieved.val.stop = ""
          /\ retrieved.val.records.reader # NoVal
          /\ b > retrieved.val.records.reader.block
  /\ stored' = Truncated(stored, b)
  /\ UNCHANGED <<simVars, messages, decoded, retrieved, regVars, resVars>>

\* writer_schema, loaded_alerts = schema.retrieve_alerts(f): read is what
\* the caller has read from loaded_alerts, stop the exception that ended it
RetrieveAlerts ==
  /\ retrieved = NoVal
  /\ LET r == retrieve_alerts(stored, definition)
     IN retrieved' =
          IF r.err # "" THEN r
          ELSE Returned([schema |-> r.val.schema, records |-> r.val.records,
                         read |-> <<>>, stop |-> ""])
  /\ UNCHANGED <<simVars, messages, decoded, stored, regVars, resVars>>

\* list(loaded_alerts) inside the with-block that opened the file
\* (test_io.py): all the records, unless the reading raises
ListAlerts ==
  /\ retrieved # NoVal
  /\ retrieved.err = ""
  /\ retrieved.val.stop = ""
  /\ retrieved.val.read = <<>>
  /\ ~stored.closed
  /\ LET r == ListOf(retrieved.val.records, stored, <<>>)
     IN retrieved' = [retrieved EXCEPT
          !.val.records = r.records,
          !.val.read = IF r.err = "StopIteration" THEN r.val ELSE <<>>,
          !.val.stop = r.err]
  /\ UNCHANGED <<simVars, messages, decoded, stored, regVars, resVars>>

\* The with-block in which retrieve_alerts was called ends: f is closed
CloseFile ==
  /\ retrieved # NoVal
  /\ stored # NoVal
  /\ ~stored.closed
  /\ stored' = [stored EXCEPT !.closed = TRUE]
  /\ UNCHANGED <<simVars, messages, decoded, retrieved, regVars, resVars>>

\* for a1, a2 in zip(alerts, loaded_alerts), after the with-block and after
\* assert(schema == writer_schema) (simulateAlerts.py): one more turn, which
\* takes next(loaded_alerts) while alerts has a record left and every pair
\* so far was equal
NextRecord ==
  /\ retrieved # NoVal
  /\ retrieved.err = ""
  /\ retrieved.val.stop = ""
  /\ stored.closed
  /\ PyEq(definition, retrieved.val.schema)
  /\ Len(retrieved.val.read) < Len(alerts)
  /\ \A i \in DOMAIN retrieved.val.read : PyEq(alerts[i], retrieved.val.read[i])
  /\ LET r == NextOf(retrieved.val.records, stored)
     IN retrieved' = [retrieved EXCEPT
          !.val.records = r.records,
          !.val.read = IF r.err = "" THEN Append(@, r.val) ELSE @,
          !.val.stop = r.err]
  /\ UNCHANGED <<simVars, messages, decoded, stored, regVars, resVars>>

NextCodec ==
  \/ Validate
  \/ \E i \in 1..MaxStored : Serialize(i)
  \/ \E i \in 1..MaxStored : Deserialize(i)
  \/ StoreAlerts
  \/ \E b \in 1..MaxStored : Truncate(b)
  \/ RetrieveAlerts
  \/ ListAlerts
  \/ CloseFile
  \/ NextRecord

SpecCodec == InitCodec /\ [][NextCodec]_vars

----------------------------------------------------------------------------
(* Claims about the simulator, checked under SpecSimulate *)

\* C8: for every schema of the closed type set, every keepNull and every
\* arrayCount, simulate_alert returns a record, raising nothing, and
\* validate accepts the record against the same schema.
C8_SimulatedAlertIsValid ==
  /\ raised = ""
  /\ \A i \in DOMAIN valid : valid[i].err = "" /\ valid[i].val = TRUE

----------------------------------------------------------------------------
(* Claims about the codec, checked under SpecCodec *)

\* whether a field's type has a null branch
IsOptional(field) ==
  IsList(Get(field, "type")) /\ Str("null") \in Range(Get(field, "type").items)

RECURSIVE NullFilled(_, _, _)
\* The datum with null for every optional field it leaves out
NullFilled(datum, type, named) ==
  CASE IsStr(type) /\ type.s \in PrimitiveTypes -> datum
    [] IsStr(type) /\ type.s \notin PrimitiveTypes ->
         NullFilled(datum, NamedType(type.s, named), named)
    [] IsList(type) ->
         NullFilled(datum, type.items[UnionBranch(datum, type, named)], named)
    [] IsDict(type) /\ Get(type, "type") = Str("record") ->
         LET fields == Get(type, "fields").items
             name(i) == Get(fields[i], "name").s
             filled == [i \in DOMAIN fields |->
                          IF HasKey(datum, name(i))
                            THEN <<KV(name(i),
                                      NullFilled(Get(datum, name(i)),
                                                 Get(fields[i], "type"), named))>>
                          ELSE IF IsOptional(fields[i])
                            THEN <<KV(name(i), JNull)>>
                          ELSE <<>>]
             others == [i \in DOMAIN datum.items |->
                          IF \E j \in DOMAIN fields :
                               Str(name(j)) = datum.items[i].key
                            THEN <<>> ELSE <<datum.items[i]>>]
             Flat[i \in 0..Len(filled)] ==
               IF i = 0 THEN <<>> ELSE Flat[i - 1] \o filled[i]
             Rest[i \in 0..Len(others)] ==
               IF i = 0 THEN <<>> ELSE Rest[i - 1] \o others[i]
         IN Dict(Flat[Len(filled)] \o Rest[Len(others)])
    [] IsDict(type) /\ Get(type, "type") = Str("array") ->
         List([i \in DOMAIN datum.items |->
                 NullFilled(datum.items[i], Get(type, "items"), named)])
    [] OTHER -> datum

\* The float of 24 significant bits nearest to n, ties to the even one
RoundedTo32(n) ==
  LET a == Abs(n)
      step == 2 ^ (ILog2(a) - 23)
      below == a - (a % step)
      above == below + step
      near == IF 2 * (a - below) < step THEN below
              ELSE IF 2 * (a - below) > step THEN above
              ELSE IF (below \div step) % 2 = 0 THEN below ELSE above
  IN IF a < 2 ^ 24 THEN n ELSE IF n < 0 THEN -near ELSE near

RECURSIVE ReadBack(_, _, _)
\* The datum as the schema's fields hold it: the schema's fields only, a
\* field left out at its default, a float at 32-bit precision
ReadBack(datum, type, named) ==
  CASE type = Str("float") -> Float(RoundedTo32(FloatOf(datum)))
    [] type = Str("double") -> Float(FloatOf(datum))
    [] IsStr(type) /\ type.s \in PrimitiveTypes \ {"float", "double"} -> datum
    [] IsStr(type) /\ type.s \notin PrimitiveTypes ->
         ReadBack(datum, NamedType(type.s, named), named)
    [] IsList(type) ->
         ReadBack(datum, type.items[UnionBranch(datum, type, named)], named)
    [] IsDict(type) /\ Get(type, "type") = Str("record") ->
         LET fields == Get(type, "fields").items
         IN Dict([i \in DOMAIN fields |->
                    KV(Get(fields[i], "name").s,
                       ReadBack(WriterDatum(datum, fields[i]),
                                Get(fields[i], "type"), named))])
    [] IsDict(type) /\ Get(type, "type") = Str("array") ->
         List([i \in DOMAIN datum.items |->
                 ReadBack(datum.items[i], Get(type, "items"), named)])
    [] OTHER -> datum

\* C9 as stated: for every record validate accepts, deserialize(serialize(r))
\* equals r but for null at the optional fields r leaves out, and the
\* records read from what retrieve_alerts returns after store_alerts equal
\* the stored ones in the same way, pairwise and in order, and are all of
\* them when the reading comes to its end.
C9_RoundTripGivesTheRecord ==
  LET named == NamedDefinitions(definition)
  IN /\ \A i \in DOMAIN decoded :
          (decoded[i] # NoVal /\ Schema_validate(definition, alerts[i]).err = "")
            => /\ decoded[i].err = ""
               /\ PyEq(decoded[i].val,
                       NullFilled(alerts[i], definition, named))
     /\ (retrieved # NoVal /\ retrieved.err = "")
          => /\ Len(retrieved.val.read) <= Len(alerts)
             /\ Whole(stored)
                  => \/ retrieved.val.stop \in {"", "StopIteration"}
                     \/ Len(retrieved.val.read) = Len(alerts)
             /\ retrieved.val.stop = "StopIteration"
                  => Len(retrieved.val.read) = Len(alerts)
             /\ \A i \in DOMAIN retrieved.val.read :
                  PyEq(retrieved.val.read[i],
                       NullFilled(alerts[i], definition, named))

\* C9, the reading alone: every record of a stream that was stored whole
\* is read back; no exception ends the reading before the last of them.
C9_ReadingComesToItsEnd ==
  (retrieved # NoVal /\ retrieved.err = "" /\ Whole(stored))
    => \/ retrieved.val.stop \in {"", "StopIteration"}
       \/ Len(retrieved.val.read) = Len(alerts)

\* C9, what does hold: for every record validate accepts,
\* deserialize(serialize(r))
\* holds the fields of the schema and no other key; a field of r comes back
\* with r's value, a float field at 32-bit precision, and a field r leaves
\* out comes back as the field's default (null for an optional field); the
\* records read from what retrieve_alerts returns after store_alerts are
\* these same values of the stored records, pairwise and in order, and are
\* all of them when the reading comes to its end.
C9_RoundTripGivesTheFieldsOfTheSchema ==
  LET named == NamedDefinitions(definition)
  IN /\ \A i \in DOMAIN decoded :
          (decoded[i] # NoVal /\ Schema_validate(definition, alerts[i]).err = "")
            => /\ decoded[i].err = ""
               /\ PyEq(decoded[i].val, ReadBack(alerts[i], definition, named))
     /\ (retrieved # NoVal /\ retrieved.err = "")
          => /\ Len(retrieved.val.read) <= Len(alerts)
             /\ retrieved.val.stop = "StopIteration"
                  => Len(retrieved.val.read) = Len(alerts)
             /\ \A i \in DOMAIN retrieved.val.read :
                  PyEq(retrieved.val.read[i],
                       ReadBack(alerts[i], definition, named))


----------------------------------------------------------------------------
(* Claims about the resolver on definitions nothing has checked, under     *)
(* SpecResolveUnchecked                                                    *)

RECURSIVE References(_)
\* The names a definition uses as types: the type of a field, the items of
\* an array, the values of a map, the branches of a union
References(type) ==
  CASE IsStr(type) -> {type.s}
    [] IsList(type) -> UNION {References(type.items[i]) : i \in DOMAIN type.items}
    [] IsDict(type) /\ HasKey(type, "type") ->
         LET kind == Get(type, "type")
         IN CASE kind = Str("record") /\ HasKey(type, "fields") ->
                   LET fields == Get(type, "fields").items
                   IN UNION {References(Get(fields[i], "type")) : i \in DOMAIN fields}
              [] kind = Str("array") /\ HasKey(type, "items") ->
                   References(Get(type, "items"))
              [] kind = Str("map") /\ HasKey(type, "values") ->
                   References(Get(type, "values"))
              [] kind \in {Str("enum"), Str("fixed")} -> {}
              [] OTHER -> References(kind)
    [] OTHER -> {}

\* The names used as types that are neither primitive nor defined in defs
Dangling(type, defs) == References(type) \ (PrimitiveTypes \cup DOMAIN defs)

\* C12: resolution fails when a definition refers to a name that is not
\* among the defined named types, and no resolved schema holds such a name.
C12_DanglingReferenceFails ==
  \A i \in DOMAIN results :
    /\ (\E name \in DOMAIN schema_defs : Dangling(schema_defs[name], schema_defs) # {})
         => results[i].err # ""
    /\ results[i].err = "" => Dangling(results[i].out, schema_defs) = {}

\* The null, primitive, fixed, enum, array and record kinds
ClosedTypeSet == PrimitiveTypes \cup {"fixed", "enum", "array", "record"}

RECURSIVE DeclaredKinds(_)
\* The kinds the definitions in a type declare: the "type" of each dict that
\* stands where a type is expected
DeclaredKinds(type) ==
  CASE IsList(type) -> UNION {DeclaredKinds(type.items[i]) : i \in DOMAIN type.items}
    [] IsDict(type) /\ HasKey(type, "type") ->
         LET kind == Get(type, "type")
         IN IF ~IsStr(kind) THEN DeclaredKinds(kind)
            ELSE {kind.s} \cup
              CASE kind = Str("record") /\ HasKey(type, "fields") ->
                     LET fields == Get(type, "fields").items
                     IN UNION {DeclaredKinds(Get(fields[i], "type")) :
                                 i \in DOMAIN fields}
                [] kind = Str("array") /\ HasKey(type, "items") ->
                     DeclaredKinds(Get(type, "items"))
                [] kind = Str("map") /\ HasKey(type, "values") ->
                     DeclaredKinds(Get(type, "values"))
                [] OTHER -> {}
    [] OTHER -> {}

\* C13: resolve fails when a definition declares a kind outside the closed
\* type set, and no resolved schema holds a definition of such a kind.
C13_KindOutsideClosedSetFails ==
  \A i \in DOMAIN results :
    /\ (\E name \in DOMAIN schema_defs :
          ~(DeclaredKinds(schema_defs[name]) \subseteq ClosedTypeSet))
         => results[i].err # ""
    /\ results[i].err = "" => DeclaredKinds(results[i].out) \subseteq ClosedTypeSet

----------------------------------------------------------------------------
(* Claims about the fields of the resolved records, under SpecResolve *)

\* The records that stand in full in a resolved schema
ResolvedRecords(out) == {d \in NamedDefinitions(out) : IsNamedRecord(d)}

\* The fields of a record definition
FieldsOf(record) == Get(record, "fields").items

\* The names of the fields of a record definition, in their order
FieldNames(record) ==
  [i \in DOMAIN FieldsOf(record) |-> Get(FieldsOf(record)[i], "name")]

\* a type that is the union of null and one other type
IsNullUnion(type) ==
  IsList(type) /\ Len(type.items) = 2 /\ type.items[1] = Str("null")

\* what a reference T has become: T itself if it names no defined type,
\* else the definition of T in full or the bare name
IsResolved(type, T, defs) ==
  IF IsStr(T) /\ T.s \in DOMAIN defs
    THEN type = T \/ IsDefinitionOf(type, T.s)
    ELSE type = T

\* C14 as stated: the resolver is given no nullable-preserving set, and a
\* field declared with the union [null, T] has the resolved type resolve(T)
\* alone, the null branch removed.
C14_NullUnionCollapsed ==
  \A i \in DOMAIN results :
    results[i].err = ""
      => \A d \in ResolvedRecords(results[i].out) :
           LET declared == FieldsOf(schema_defs[Get(d, "name").s])
           IN \A j \in DOMAIN declared :
                IsNullUnion(Get(declared[j], "type"))
                  => IsResolved(Get(FieldsOf(d)[j], "type"),
                                Get(declared[j], "type").items[2], schema_defs)

\* C14, amended: a field declared with the union [null, T] has the resolved
\* type [null, resolve(T)], whatever the field's name: both branches are
\* kept in their order, and T is the definition in full or the bare name.
C14_NullUnionKept ==
  \A i \in DOMAIN results :
    results[i].err = ""
      => \A d \in ResolvedRecords(results[i].out) :
           LET declared == FieldsOf(schema_defs[Get(d, "name").s])
           IN \A j \in DOMAIN declared :
                IsNullUnion(Get(declared[j], "type"))
                  => /\ IsNullUnion(Get(FieldsOf(d)[j], "type"))
                     /\ IsResolved(Get(FieldsOf(d)[j], "type").items[2],
                                   Get(declared[j], "type").items[2], schema_defs)

\* C14's case: top_field is [null, lsst.sub] and second_sub_field is
\* [null, lsst.subsub]; the first has been resolved to null and the
\* definition of lsst.sub, the second to null and the bare name
C14_Witness ==
  /\ results # <<>>
  /\ results[1].err = ""
  /\ Get(FieldsOf(schema_defs["lsst.top"])[1], "type") = Nullable(Str("lsst.sub"))
  /\ Get(FieldsOf(schema_defs["lsst.sub"])[2], "type") = Nullable(Str("lsst.subsub"))
  /\ LET top_field == Get(FieldsOf(results[1].out)[1], "type")
     IN /\ IsNullUnion(top_field)
        /\ IsDefinitionOf(top_field.items[2], "lsst.sub")
        /\ Get(FieldsOf(top_field.items[2])[2], "type")
             = Nullable(Str("lsst.subsub"))

\* C15: every record that stands in a resolved schema, the root and those
\* expanded at a reference, lists the field names of its declaration in the
\* declaration's order, none left out and none twice.
C15_FieldOrderPreserved ==
  \A i \in DOMAIN results :
    results[i].err = ""
      => /\ IsNamedRecord(results[i].out)
         /\ \A d \in ResolvedRecords(results[i].out) :
              FieldNames(d) = FieldNames(schema_defs[Get(d, "name").s])

\* C15's case: three records of one and two fields stand in the resolved
\* schema, two of them expanded at a reference
C15_Witness ==
  /\ results # <<>>
  /\ results[1].err = ""
  /\ {Get(d, "name").s : d \in ResolvedRecords(results[1].out)}
       = {"lsst.top", "lsst.sub", "lsst.subsub"}
  /\ FieldNames(results[1].out) = <<Str("top_field"), Str("boring_field")>>

----------------------------------------------------------------------------
(* Claims about the fields simulate_alert generates, under SpecSimulate.   *)
(* Each looks at one call: the definition as the call is given it, and the *)
(* alert the call has appended.                                            *)

\* The alert a call has just returned
Generated == alerts'[Len(alerts')]

\* a call that has returned an alert
Returns == alerts' # alerts

\* schema['type']['type'] == 'array'
IsArrayType(type) ==
  IsDict(type) /\ HasKey(type, "type") /\ Get(type, "type") = Str("array")

\* a field whose type is an array, or a union with an array branch
IsArrayField(field) ==
  LET type == Get(field, "type")
  IN \/ IsArrayType(type)
     \/ IsList(type) /\ \E i \in DOMAIN type.items : IsArrayType(type.items[i])

\* C16: a field whose type is the union [null, T] gets null if its name is
\* in keepNull, and a value of type T, which is not null, if it is not.
C16_NullOnlyForKeptFields ==
  [][Returns =>
       \A j \in DOMAIN FieldsOf(definition) :
         LET field == FieldsOf(definition)[j]
             name == Get(field, "name").s
         IN IsNullUnion(Get(field, "type"))
              => /\ HasKey(Generated, name)
                 /\ IF name \in keepNull
                      THEN Get(Generated, name) = JNull
                      ELSE /\ Get(Generated, name) # JNull
                           /\ Validates(Get(Generated, name),
                                        Get(field, "type").items[2],
                                        NamedDefinitions(definition))]_vars

\* C17: an array field whose name is a key of arrayCount (and is not kept
\* null) gets a list of exactly arrayCount[name] elements, the empty list
\* for a count of 0.
C17_ArrayOfCountedLength ==
  [][Returns =>
       \A j \in DOMAIN FieldsOf(definition) :
         LET field == FieldsOf(definition)[j]
             name == Get(field, "name").s
         IN (IsArrayField(field) /\ name \in DOMAIN arrayCount
                                 /\ name \notin keepNull)
              => /\ HasKey(Generated, name)
                 /\ IsList(Get(Generated, name))
                 /\ Len(Get(Generated, name).items) = arrayCount[name]]_vars

\* C18: an array field whose name is no key of arrayCount gets null if the
\* field is nullable and the empty list if it is not.
C18_UncountedArrayFitsItsType ==
  [][Returns =>
       \A j \in DOMAIN FieldsOf(definition) :
         LET field == FieldsOf(definition)[j]
             name == Get(field, "name").s
         IN (IsArrayField(field) /\ name \notin DOMAIN arrayCount)
              => /\ HasKey(Generated, name)
                 /\ Get(Generated, name)
                      = (IF IsOptional(field) THEN JNull ELSE List(<<>>))]_vars

\* C19: no call of simulate_alert changes the definition it is given (and
\* with the definition, the identifier calculate_id gives it stays).
C19_DefinitionUnchanged == [][definition' = definition]_vars

\* C20: validate raises nothing, whatever the record: every call returns
\* TRUE for a record that complies with the schema and FALSE for one that
\* does not.
C20_ValidateReturnsABoolean ==
  [][valid' # valid =>
       LET answer == valid'[Len(valid')]
           record == alerts[Len(valid')]
       IN /\ answer.err = ""
          /\ answer.val = Validates(record, definition,
                                    NamedDefinitions(definition))]_vars

----------------------------------------------------------------------------
(* Claims about retrieve_alerts, under SpecCodec *)

\* a stream alert data cannot be read from: it has no header, or its first
\* record ends early
Unreadable(fp) ==
  \/ fp = NoVal
  \/ fp.closed
  \/ ~FirstRecordReadable(fp)

\* C21: whenever alert data cannot be read from the stream, at the header
\* or only at the first record, retrieve_alerts raises RuntimeError and no
\* exception of another kind.
C21_UnreadableRaisesRuntimeError ==
  [][(retrieved = NoVal /\ retrieved' # NoVal /\ Unreadable(stored))
       => retrieved'.err = "RuntimeError"]_vars

\* The definition without fastavro's hint keys, as test_io.py compares it
\* with the schema retrieve_alerts returned
SameSchemaButHints(schema, written) == PyEq(schema, WithoutHints(written))

\* What reading has to give, whatever schema is returned with the records:
\* the records read are the stored records as the schema's fields hold
\* them, in stored order, each once; they are all of them when the reading
\* comes to its end; only a closed file or a stream cut short ends the
\* reading otherwise; and while neither is the case the next record asked
\* for is given if one is left, and StopIteration raised if none is
RecordsEachOnceInOrder ==
  LET named == NamedDefinitions(definition)
  IN (retrieved # NoVal /\ retrieved.err = "")
       => /\ Len(retrieved.val.read) <= Len(alerts)
          /\ \A i \in DOMAIN retrieved.val.read :
               PyEq(retrieved.val.read[i], ReadBack(alerts[i], definition, named))
          /\ retrieved.val.stop = "StopIteration"
               => Len(retrieved.val.read) = Len(alerts)
          /\ retrieved.val.stop \notin {"", "StopIteration"}
               => stored.closed \/ ~Whole(stored)
          /\ (~stored.closed /\ Whole(stored) /\ retrieved.val.stop = "")
               => NextOf(retrieved.val.records, stored).err
                    = IF Len(retrieved.val.read) < Len(alerts) THEN ""
                      ELSE "StopIteration"
          /\ alerts = <<>> => retrieved.val.records = Chain(<<>>, NoVal)

\* C22: the records read from what retrieve_alerts returns are the stored
\* records in stored order, each once, the record peeked at being the
\* first, and all of them when the reading comes to its end; for a stream
\* of no records there is no record to read; and the schema returned
\* equals the schema the stream was written with.
C22_RecordsInStoredOrderEachOnce ==
  /\ RecordsEachOnceInOrder
  /\ (retrieved # NoVal /\ retrieved.err = "")
       => PyEq(retrieved.val.schema, definition)

\* C22, what does hold: the records are read as C22 says, and the schema
\* returned is the schema the stream was written with once fastavro's hint
\* keys are taken out of that one.
C22_RecordsInOrderSchemaButHints ==
  /\ RecordsEachOnceInOrder
  /\ (retrieved # NoVal /\ retrieved.err = "")
       => SameSchemaButHints(retrieved.val.schema, definition)

\* Two records that read back differently were stored in one block and
\* have been read, the first from the list and the second from the block
\* the reader holds, to the end of the stream
ReadTwoOfOneBlock ==
  /\ retrieved # NoVal /\ retrieved.err = ""
  /\ Len(alerts) = 2
  /\ Len(stored.blocks) = 1
  /\ retrieved.val.stop = "StopIteration"
  /\ ~PyEq(retrieved.val.read[1], retrieved.val.read[2])

\* Two records stored in two blocks have been read to the end of the stream
ReadTwoBlocks ==
  /\ retrieved # NoVal /\ retrieved.err = ""
  /\ Len(alerts) = 2
  /\ Len(stored.blocks) = 2
  /\ retrieved.val.stop = "StopIteration"
  /\ Len(retrieved.val.read) = 2

\* The schema returned differs from the schema written with: a stream of
\* no records written with a definition that holds a hint key
ReturnedWithoutHints ==
  /\ retrieved # NoVal /\ retrieved.err = ""
  /\ alerts = <<>>
  /\ HasKey(definition, "__fastavro_parsed")
  /\ ~HasKey(retrieved.val.schema, "__fastavro_parsed")

----------------------------------------------------------------------------
(* More claims about the registry, under SpecRegistry *)

\* C28: after any sequence of register_schema calls on a new registry,
\* every version of known_versions maps to an identifier that has a schema
\* stored, and get_by_version returns a schema for it.
C28_KnownVersionsHaveSchemas ==
  \A version \in known_versions(Registry) :
    /\ version_to_id[version] \in DOMAIN id_to_schema
    /\ get_by_version(Registry, version).err = ""

\* C28's case: a version registered twice with schemas of different
\* identifiers, beside another version, and get_by_version has just
\* returned the schema of the version registered twice
C28_Witness ==
  /\ Cardinality(known_versions(Registry)) >= 2
  /\ Cardinality(DOMAIN id_to_schema) >= 2
  /\ \E version \in known_versions(Registry) :
       /\ lastCall[version].id = version_to_id[version]
       /\ \E other \in DOMAIN id_to_schema :
            other \notin {version_to_id[v] : v \in known_versions(Registry)}
       /\ ret.op = "get_by_version" /\ ret.arg = version /\ ret.err = ""

----------------------------------------------------------------------------
(* Claims about threads reading the registry, under SpecReaders *)

\* What the call returns when it runs alone on the registry
Alone(call) ==
  CASE call.op = "get_by_id"      -> get_by_id(Registry, call.arg)
    [] call.op = "get_by_version" -> get_by_version(Registry, call.arg)
    [] call.op = "known_versions" -> Returned(known_versions(Registry))

\* C23: on a populated registry, however the get_by_version, get_by_id and
\* known_versions calls of several threads interleave, every call returns
\* what it returns when the calls run one after another, and no step
\* changes either map of the registry.
C23_ReadersAgreeWithSequentialCalls ==
  [][/\ version_to_id' = version_to_id
     /\ id_to_schema' = id_to_schema
     /\ \A t \in DOMAIN threads' :
          threads'[t].pc = "done" => threads'[t].result = Alone(threads'[t])]_vars

\* C23's case: a thread has returned from get_by_version with a schema
\* while another thread is between the two lookups of its own call
C23_Witness ==
  /\ threads # <<>>
  /\ \E t, u \in DOMAIN threads :
       /\ t # u
       /\ threads[t].pc = "done" /\ threads[t].op = "get_by_version"
       /\ threads[t].result.err = ""
       /\ threads[u].pc = "second"
       /\ threads[u].result # NoVal

-----------------------------------------------------------------------------
\* Claims about the random generators, under SpecSimulate

\* The least and the greatest value of the Avro int type
Int32Min == -2147483647 - 1

Int32Max == 2147483647

\* numpy.random.randint(low, high): the integers of [low, high), the upper
\* bound excluded
randint(low, high) == low..(high - 1)

\* randomInt(): the values numpy.random.randint(-2**31, 2**31 - 1) returns
randomInt == randint(Int32Min, Int32Max)

\* The ends of the signed 32-bit range, their neighbours and zero
Int32Probes == {Int32Min, Int32Min + 1, 0, Int32Max - 1, Int32Max}

\* C24: the values randomInt can return are exactly those of the signed
\* 32-bit range, both ends included (and randomLong, built the same way on
\* 64 bits, those of the signed 64-bit range): for each alert generated,
\* each value of the range could have been drawn for an int of it, and
\* nothing outside the range could.
C24_RandomIntSpansInt32 ==
  \A i \in 1..Len(alerts) :
    /\ \A n \in Int32Probes : n \in randomInt
    /\ \A d \in 1..NumDraws : RandomDraw(d)["int"].n \in Int32Min..Int32Max

-----------------------------------------------------------------------------
\* Claims about bare names and substitution by hand, under SpecResolve

RECURSIVE ReachFrom(_, _)
\* The named types of defs reached from the types names, themselves included
ReachFrom(defs, names) ==
  LET next == names \cup
                UNION {References(defs[n]) \cap DOMAIN defs : n \in names}
  IN IF next = names THEN names ELSE ReachFrom(defs, next)

\* No named type reached from root is reached from its own definition
IsAcyclicFrom(defs, root) ==
  \A n \in ReachFrom(defs, {root}) :
    n \notin ReachFrom(defs, References(defs[n]) \cap DOMAIN defs)

RECURSIVE Inline(_, _)
RECURSIVE InlineItems(_, _)
\* The definitions of defs substituted into x by hand: every name of a
\* named type replaced by its definition, fastavro's mark left out
Inline(defs, x) ==
  CASE IsStr(x)  -> IF x.s \in DOMAIN defs THEN Inline(defs, defs[x.s]) ELSE x
    [] IsList(x) -> List([i \in DOMAIN x.items |-> Inline(defs, x.items[i])])
    [] IsDict(x) -> Dict(InlineItems(defs, x.items))
    [] OTHER     -> x

InlineItems(defs, items) ==
  IF items = <<>> THEN <<>>
  ELSE LET k == items[1].key
       IN (IF k = Str("__fastavro_parsed") THEN <<>>
           ELSE <<Item(k, IF k = Str("name") THEN items[1].val
                          ELSE Inline(defs, items[1].val))>>)
          \o InlineItems(defs, Tail(items))

RECURSIVE DefinitionsIn(_, _)
RECURSIVE DefinitionsInItems(_, _, _)
\* The full definitions of the named type name in the tree x, in depth-first
\* declaration order
DefinitionsIn(x, name) ==
  CASE IsList(x) -> DefinitionsInItems(x.items, name, FALSE)
    [] IsDict(x) -> (IF IsDefinitionOf(x, name) THEN <<x>> ELSE <<>>)
                    \o DefinitionsInItems(x.items, name, TRUE)
    [] OTHER     -> <<>>

DefinitionsInItems(items, name, keyed) ==
  IF items = <<>> THEN <<>>
  ELSE DefinitionsIn(IF keyed THEN items[1].val ELSE items[1], name)
       \o DefinitionsInItems(Tail(items), name, keyed)

RECURSIVE ExpandBare(_, _)
RECURSIVE ExpandBareItems(_, _)
\* The tree x with every bare name replaced by the definition the resolved
\* schema out holds of it
ExpandBare(out, x) ==
  CASE IsStr(x)  -> IF DefinitionsIn(out, x.s) # <<>>
                      THEN ExpandBare(out, DefinitionsIn(out, x.s)[1])
                      ELSE x
    [] IsList(x) -> List([i \in DOMAIN x.items |-> ExpandBare(out, x.items[i])])
    [] IsDict(x) -> Dict(ExpandBareItems(out, x.items))
    [] OTHER     -> x

ExpandBareItems(out, items) ==
  IF items = <<>> THEN <<>>
  ELSE <<Item(items[1].key, IF items[1].key = Str("name") THEN items[1].val
                            ELSE ExpandBare(out, items[1].val))>>
       \o ExpandBareItems(out, Tail(items))

\* C25: in a schema resolved from a named-record root, a bare name of a
\* named type stands, in depth-first declaration order, only after the full
\* definition of that type has begun; and for an acyclic graph, putting that
\* definition in the place of every bare name gives the tree of the
\* definitions substituted into each other by hand.
C25_BareNamesExpandToHandSubstitution ==
  \A i \in DOMAIN results :
    (IsNamedRecord(to_resolve) /\ results[i].err = "")
      => /\ \A name \in DOMAIN schema_defs :
              LET occ == Occurrences(results[i].out, name)
              IN \A j \in DOMAIN occ :
                   occ[j] = "ref" => \E d \in 1..(j - 1) : occ[d] = "def"
         /\ IsAcyclicFrom(schema_defs, Get(to_resolve, "name").s)
              => ExpandBare(results[i].out, results[i].out)
                   = Inline(schema_defs, to_resolve)

\* C25's case: an acyclic graph has been resolved, the schema holds bare
\* names of two types, and replacing them changes it
C25_Witness ==
  /\ results # <<>>
  /\ results[1].err = ""
  /\ IsAcyclicFrom(schema_defs, "lsst.top")
  /\ "ref" \in Range(Occurrences(results[1].out, "lsst.sub"))
  /\ "ref" \in Range(Occurrences(results[1].out, "lsst.md5"))
  /\ ExpandBare(results[1].out, results[1].out) # results[1].out
  /\ ExpandBare(results[1].out, results[1].out) = Inline(schema_defs, to_resolve)

-----------------------------------------------------------------------------
(* resolve_schema_definition on roots of every form: the list of top-level *)
(* definitions fastavro's load_schema gives for a file that holds several, *)
(* a union of names, an array type, and the named record itself.           *)

Roots(defs) ==
  {List(<<defs["lsst.top"], defs["lsst.sub"]>>),
   List(<<Str("lsst.sub"), Str("lsst.subsub")>>),
   ArrayOf(List(<<Str("null"), Str("lsst.subsub"), Str("lsst.sub")>>)),
   defs["lsst.top"]}

InitResolveRoots ==
  /\ schema_defs \in TypeGraphs
  /\ to_resolve \in Roots(schema_defs)
  /\ results = <<>>
  /\ seen_names = {}
  /\ NoRegistry
  /\ NoAlerts

SpecResolveRoots == InitResolveRoots /\ [][NextResolve]_vars

\* C26: the seen names are one set for the whole traversal whatever the form
\* of the root: also for a list of top-level definitions, or a root that is
\* no named type, a named type defined in full in one element or branch
\* stands as the bare name in every later one.
C26_OneSeenSetForEveryRoot ==
  \A i \in DOMAIN results :
    results[i].err = ""
      => \A name \in DOMAIN schema_defs :
           LET occ == Occurrences(results[i].out, name)
           IN \A j \in 2..Len(occ) : occ[j] = "ref"

-----------------------------------------------------------------------------
(* simulate_alert on what the resolver returns: Schema(...).definition of  *)
(* a graph of records (no enum or fixed type is referenced), as            *)
(* simulateAlerts.py hands it over.                                        *)

RecordGraphs ==
  {TypeGraph(t1, t2, t3, t4, Str("string")) :
     t1 \in {Str("lsst.sub"), ArrayOf(Str("lsst.sub")), Nullable(Str("lsst.sub"))},
     t2 \in {Str("int"), Str("lsst.sub")},
     t3 \in {Str("lsst.subsub"), ArrayOf(Str("lsst.subsub"))},
     t4 \in {Str("lsst.subsub"), ArrayOf(Str("lsst.subsub")),
             Nullable(Str("lsst.subsub")), Str("string")}}

ResolvedKeepNulls == SUBSET {"top_field", "second_sub_field"}

ResolvedArrayCounts ==
  UNION {[names -> 0..MaxArrayCount] :
           names \in {{}, {"top_field"}, {"sub_field", "second_sub_field"}}}

\* schema = Schema(...): definition is what resolve_schema_definition returns
InitSimulateResolved ==
  /\ schema_defs \in RecordGraphs
  /\ to_resolve = schema_defs["lsst.top"]
  /\ results = <<>>
  /\ seen_names = {}
  /\ definition = Schema_init(OldFastavro(schema_defs), to_resolve, seen_names).out
  /\ keepNull \in ResolvedKeepNulls
  /\ arrayCount \in ResolvedArrayCounts
  /\ alerts = <<>>
  /\ raised = ""
  /\ valid = <<>>
  /\ messages = <<>>
  /\ decoded = <<>>
  /\ stored = NoVal
  /\ retrieved = NoVal
  /\ NoRegistry

SpecSimulateResolved == InitSimulateResolved /\ [][NextSimulate]_vars

\* The named types that stand as a bare name in the tree x
BareNames(x) ==
  {name \in {"lsst.top", "lsst.sub", "lsst.subsub"} :
     "ref" \in Range(Occurrences(x, name))}

\* C27: simulate_alert accepts every schema the resolver returns: also for
\* a resolved schema in which a repeated named type stands as a bare name,
\* as the type of a field or the items of an array, no call raises, and each
\* call on it returns a record.
C27_ResolvedSchemaIsSimulated ==
  BareNames(definition) # {}
    => /\ raised = ""
       /\ \A i \in DOMAIN alerts : IsDict(alerts[i])

-----------------------------------------------------------------------------
(* loadRegistry.py: main deletes the subject of the remote registry and    *)
(* asks for IMPORT mode (delete_schema: a GET, a DELETE, a PUT), loads the *)
(* local schemas, posts each version, and asks for READWRITE mode.  Every  *)
(* request is answered by the service, which takes it or refuses it with   *)
(* an error status that main only prints, or raises for want of a          *)
(* connection.  remote holds where main is (pc), the mode of the subject,  *)
(* the version numbers the subject holds, the versions posted so far,      *)
(* whether the PUT for IMPORT mode has been answered (asked) and whether   *)
(* the subject has been in IMPORT mode since (switched).                   *)

\* re.findall(r'\d+', version), each number as its decimal digits
FindNumbers(version) ==
  CASE version = "1.0" -> << <<1>>, <<0>> >>
    [] version = "2.0" -> << <<2>>, <<0>> >>
    [] version = "2.1" -> << <<2>>, <<1>> >>

RECURSIVE zfill(_, _)
\* str.zfill(width): zeros in front up to the width
zfill(digits, width) ==
  IF Len(digits) >= width THEN digits ELSE zfill(<<0>> \o digits, width)

RECURSIVE Join(_)
\* ''.join(numbers)
Join(numbers) ==
  IF numbers = <<>> THEN <<>> ELSE numbers[1] \o Join(Tail(numbers))

RECURSIVE ToInt(_)
\* int(digits)
ToInt(digits) ==
  IF digits = <<>> THEN 0
  ELSE 10 * ToInt(SubSeq(digits, 1, Len(digits) - 1)) + digits[Len(digits)]

\* upload_schema: numbers[1] = str(numbers[1]).zfill(2);
\* version_number = int(''.join(numbers))
version_number(version) ==
  LET numbers == FindNumbers(version)
  IN ToInt(Join([numbers EXCEPT ![2] = zfill(numbers[2], 2)]))

\* SchemaRegistry().all_schemas_from_filesystem(): a registry of the local
\* schemas, or an exception
all_schemas_from_filesystem ==
  {Returned(reg) : reg \in PopulatedRegistries} \cup {Raised("AttributeError")}

\* The version numbers the subject may hold before main runs
EarlierSubjects == {{}, {100}, {100, 201}}

\* What a request comes to: the service does what is asked and answers 200,
\* it answers with an error status and does nothing, or requests raises
Answers == {"accepted", "refused", "raises"}

Remote(pc, mode, subject, posted, asked, switched) ==
  [pc |-> pc, mode |-> mode, subject |-> subject, posted |-> posted,
   asked |-> asked, switched |-> switched]

InitLoadRegistry ==
  /\ \E subject \in EarlierSubjects, mode \in {"READWRITE", "READONLY"} :
       remote = Remote("get", mode, subject, {}, FALSE, FALSE)
  /\ version_to_id = <<>>
  /\ id_to_schema = <<>>
  /\ ret = [op |-> "init", arg |-> NoVal, err |-> "", val |-> NoVal]
  /\ lastCall = <<>>
  /\ threads = <<>>
  /\ NoResolve
  /\ NoAlerts

\* delete_schema: response = requests.get(url_schema_versions).  The
\* versions are deleted if the status is 200, which the service answers
\* for a subject that has versions; on any other status, an error of the
\* service among them, main goes on to the mode switch with the subject as
\* it is
GetVersions(answer) ==
  /\ remote.pc = "get"
  /\ remote' = [remote EXCEPT !.pc =
       IF answer = "raises" THEN "raised"
       ELSE IF answer = "accepted" /\ remote.subject # {} THEN "delete"
       ELSE "put_import"]
  /\ UNCHANGED <<version_to_id, id_to_schema, ret, lastCall, threads,
                 resVars, simVars, codecVars>>

\* delete_schema: requests.delete(url_schemas), its status only printed
DeleteSubject(answer) ==
  /\ remote.pc = "delete"
  /\ remote' = [remote EXCEPT
       !.pc = IF answer = "raises" THEN "raised" ELSE "put_import",
       !.subject = IF answer = "accepted" THEN {} ELSE @]
  /\ UNCHANGED <<version_to_id, id_to_schema, ret, lastCall, threads,
                 resVars, simVars, codecVars>>

\* delete_schema: requests.put(url_mode, {'mode': 'IMPORT'}), its status
\* only printed
PutImport(answer) ==
  /\ remote.pc = "put_import"
  /\ remote' = [remote EXCEPT
       !.pc = IF answer = "raises" THEN "raised" ELSE "load",
       !.mode = IF answer = "accepted" THEN "IMPORT" ELSE @,
       !.asked = answer # "raises",
       !.switched = answer = "accepted"]
  /\ UNCHANGED <<version_to_id, id_to_schema, ret, lastCall, threads,
                 resVars, simVars, codecVars>>

\* schema_registry = SchemaRegistry().all_schemas_from_filesystem()
LoadSchemas(loaded) ==
  /\ remote.pc = "load"
  /\ IF loaded.err = ""
       THEN /\ version_to_id' = loaded.val.version_to_id
            /\ id_to_schema' = loaded.val.id_to_schema
            /\ remote' = [remote EXCEPT !.pc = "upload_schema"]
       ELSE /\ remote' = [remote EXCEPT !.pc = "raised"]
            /\ UNCHANGED <<version_to_id, id_to_schema>>
  /\ UNCHANGED <<ret, lastCall, threads, resVars, simVars, codecVars>>

\* upload_schema, one turn of its loop: the version is posted; a refusal is
\* an error status, which nothing checks (raise_for_status is commented out)
UploadSchema(version, answer) ==
  /\ remote.pc = "upload_schema"
  /\ version \in known_versions(Registry) \ remote.posted
  /\ get_by_version(Registry, version).err = ""
  /\ remote' = [remote EXCEPT
       !.pc = IF answer = "raises" THEN "raised" ELSE @,
       !.posted = IF answer = "raises" THEN @ ELSE @ \cup {version},
       !.subject = IF answer = "accepted"
                     THEN @ \cup {version_number(version)} ELSE @]
  /\ UNCHANGED <<version_to_id, id_to_schema, ret, lastCall, threads,
                 resVars, simVars, codecVars>>

\* main, after upload_schema has returned: requests.put of mode READWRITE,
\* its status only printed
SwitchToReadWrite(answer) ==
  /\ remote.pc = "upload_schema"
  /\ known_versions(Registry) \ remote.posted = {}
  /\ remote' = [remote EXCEPT
       !.pc = IF answer = "raises" THEN "raised" ELSE "done",
       !.mode = IF answer = "accepted" THEN "READWRITE" ELSE @]
  /\ UNCHANGED <<version_to_id, id_to_schema, ret, lastCall, threads,
                 resVars, simVars, codecVars>>

NextLoadRegistry ==
  \/ \E answer \in Answers : GetVersions(answer)
  \/ \E answer \in Answers : DeleteSubject(answer)
  \/ \E answer \in Answers : PutImport(answer)
  \/ \E loaded \in all_schemas_from_filesystem : LoadSchemas(loaded)
  \/ \E version \in Versions, answer \in Answers : UploadSchema(version, answer)
  \/ \E answer \in Answers : SwitchToReadWrite(answer)

SpecLoadRegistry == InitLoadRegistry /\ [][NextLoadRegistry]_vars

\* C29: in every run of main, no schema is posted before the subject has
\* been switched to IMPORT mode, and a run in which it has been switched to
\* IMPORT mode ends with the subject in READWRITE mode, also when a post is
\* refused or the local schemas cannot be loaded.
C29_ImportModeIsLeft ==
  /\ remote.posted # {} => remote.switched
  /\ (remote.switched /\ remote.pc \in {"done", "raised"})
       => remote.mode = "READWRITE"

-----------------------------------------------------------------------------
(* resolve_schema_definition on definitions that carry the attributes of   *)
(* an Avro schema which are no types: the doc and the aliases of a record, *)
(* the default of a field.                                                 *)

\* The strings a doc or a default is: two names of named types, and a text
AttributeStrings == {Str("lsst.sub"), Str("lsst.kind"), Str("a record")}

\* The aliases a record has
AliasLists == {<<>>, <<Str("lsst.old_top")>>, <<Str("lsst.md5")>>}

\* The graph g, its root record carrying a doc and aliases and its second
\* field a default
Documented(g, doc, default, aliases) ==
  LET fields == Get(g["lsst.top"], "fields").items
  IN [g EXCEPT !["lsst.top"] =
        Dict(<<KV("type", Str("record")), KV("name", Str("lsst.top")),
               KV("doc", doc), KV("aliases", List(aliases)),
               KV("fields", List(<<fields[1],
                                   SetItem(fields[2], "default", default)>>)),
               KV("__fastavro_parsed", JBool(TRUE))>>)]

DocumentedGraphs ==
  {Documented(TypeGraph(t1, Str("string"), Str("lsst.subsub"), t4, Str("string")),
              doc, default, aliases) :
     t1 \in TopFieldTypes, t4 \in {Str("lsst.subsub"), Str("string")},
     doc \in AttributeStrings, default \in AttributeStrings,
     aliases \in AliasLists}

InitResolveAttributes ==
  /\ schema_defs \in DocumentedGraphs
  /\ to_resolve = schema_defs["lsst.top"]
  /\ results = <<>>
  /\ seen_names = {}
  /\ NoRegistry
  /\ NoAlerts

SpecResolveAttributes == InitResolveAttributes /\ [][NextResolve]_vars

\* The doc and the aliases of the record x and the default of its second
\* field
AttributesOf(x) ==
  <<Get(x, "doc"), Get(x, "aliases"),
    Get(Get(x, "fields").items[2], "default")>>

\* C30: a definition is put only where a string stands as a type: the
\* values of the other attributes (the doc, the aliases, a default) are in
\* the resolved schema what they are in the definition, also when they are
\* the name of a defined named type.
C30_AttributesCopiedUnchanged ==
  \A i \in DOMAIN results :
    results[i].err = ""
      => AttributesOf(results[i].out) = AttributesOf(to_resolve)

====
